---------------------------- MODULE Spec2Model ----------------------------
(***************************************************************************)
(* Multi-zone thermal controller (zephyr-hispec-mtc): sensor registry,     *)
(* heater registry, PID controller and control loop engine, with the three *)
(* execution contexts of app/src/main.c (sensor thread, control thread,    *)
(* supervisor loop) and an external command context.                       *)
(*                                                                         *)
(* C floats are modelled as exact rationals <<n, d>> in lowest terms with  *)
(* d > 0.  The IEEE-754 special values keep a zero denominator:            *)
(* <<0,0>> is NaN, <<1,0>> is +Inf, <<-1,0>> is -Inf.  Rounding of finite  *)
(* results is not modelled.                                                *)
(***************************************************************************)
EXTENDS Integers, Sequences, FiniteSets, TLC

VARIABLES
    num,              \* num_sensors, num_heaters, num_loops of the three modules
    smp,              \* sensor thread: position inside sensor_manager_read_all
    cfg,              \* thermal_config_t handed to every init
    sensor_cache,     \* sensor_manager.c: sensor_cache[]
    heater_state,     \* heater_manager.c: heater_state[]
    loop_state,       \* control_loop.c: loop_state[]
    alarm_triggered,  \* main.c: alarm_triggered
    ctl,              \* control thread: position and locals of the running tick
    sup,              \* supervisor loop: position inside monitor_system_health
    cmd,              \* external command context: position and remaining calls
    last              \* the public call that returned last, with its result

vars == <<num, smp, cfg, sensor_cache, heater_state, loop_state, alarm_triggered,
          ctl, sup, cmd, last>>

-----------------------------------------------------------------------------
(* float arithmetic *)

\* Operands are bound once (a \in {x}) before they are used, so that an
\* operand expression is evaluated a single time however often it occurs.

Abs(x) == IF x < 0 THEN -x ELSE x

Sgn(x) == IF x < 0 THEN -1 ELSE IF x > 0 THEN 1 ELSE 0

RECURSIVE Gcd(_, _)
Gcd(a, b) ==
    CHOOSE g \in { IF y = 0 THEN x ELSE Gcd(y, x % y) : x \in {a}, y \in {b} } :
        TRUE

\* the float n/d
F(n, d) ==
    CHOOSE r \in { IF y = 0 THEN <<Sgn(x), 0>>
                   ELSE LET g == Gcd(Abs(x), Abs(y))
                            s == IF y < 0 THEN -1 ELSE 1
                        IN  <<(s * x) \div g, (s * y) \div g>> :
                   x \in {n}, y \in {d} } : TRUE

I(n) == <<n, 1>>

NaN == <<0, 0>>

IsNaN(x) == x = NaN

IsFinite(x) == x[2] # 0

FAdd(x, y) ==
    CHOOSE r \in { IF a[2] = 0 /\ b[2] = 0
                   THEN (IF a = b THEN a ELSE NaN)
                   ELSE F(a[1] * b[2] + b[1] * a[2], a[2] * b[2]) :
                   a \in {x}, b \in {y} } : TRUE

FNeg(x) == CHOOSE r \in { <<-a[1], a[2]>> : a \in {x} } : TRUE

FSub(x, y) == FAdd(x, FNeg(y))

FMul(x, y) ==
    CHOOSE r \in { F(a[1] * b[1], a[2] * b[2]) : a \in {x}, b \in {y} } : TRUE

FDiv(x, y) ==
    CHOOSE r \in { F(a[1] * b[2], a[2] * b[1]) : a \in {x}, b \in {y} } : TRUE

\* x < y; every comparison with NaN is false
FLt(x, y) ==
    \E a \in {x}, b \in {y} :
        /\ ~IsNaN(a)
        /\ ~IsNaN(b)
        /\ IF a[2] = 0 /\ b[2] = 0 THEN a[1] < b[1]
           ELSE a[1] * b[2] < b[1] * a[2]

FGt(x, y) == FLt(y, x)

FLe(x, y) ==
    \E a \in {x}, b \in {y} : ~IsNaN(a) /\ ~IsNaN(b) /\ (a = b \/ FLt(a, b))

-----------------------------------------------------------------------------
(* bounds of the explored inputs *)

\* requested wattages range over -1 .. MaxWatts
MaxWatts == 2

\* number of calls the external command context makes in one behaviour
MaxCommands == 1

\* number of sensor_manager_read_all sweeps in one behaviour of LockSpec
MaxSweeps == 2


-----------------------------------------------------------------------------
(* heater registry: lib/heaters/heater_manager.c *)

\* outcome of the regulator driver during one set_power call: the return of
\* regulator_enable / regulator_disable, and the sign the float-to-int32
\* conversion of the target voltage yields when it is undefined (NaN)
IoOutcomes == [reg_ok : BOOLEAN, ub_uv_pos : BOOLEAN]

\* index of the first heater_state entry whose id is heater_id, 0 when none
FindHeater(hs, heater_id) ==
    IF \E j \in 1..Len(hs) : hs[j].id = heater_id
    THEN CHOOSE j \in 1..Len(hs) :
            /\ hs[j].id = heater_id
            /\ \A k \in 1..(j - 1) : hs[k].id # heater_id
    ELSE 0

ClampPercent(power_percent) ==
    LET lo == IF FLt(power_percent, I(0)) THEN I(0) ELSE power_percent
    IN  IF FGt(lo, I(100)) THEN I(100) ELSE lo

\* the float whose square root set_power converts to int32 microvolts
Radicand(h, power_percent) ==
    LET target_power == FMul(FDiv(power_percent, I(100)), h.max_power_watts)
        resistance == IF FLe(h.resistance_ohms, F(1, 1000)) THEN I(1)
                      ELSE h.resistance_ohms
    IN  FMul(target_power, resistance)

\* the conversion (int32_t)(target_voltage * 1000000.0f) is undefined
UvUndefined(h, power_percent) ==
    LET radicand == Radicand(h, power_percent)
    IN  IsNaN(radicand) \/ ~IsFinite(radicand) \/ FLt(radicand, I(0))

\* target_uv > 0 for heater h driven at power_percent
TargetUvPositive(h, power_percent, io) ==
    IF UvUndefined(h, power_percent) THEN io.ub_uv_pos
    ELSE FGt(Radicand(h, power_percent), I(0))

\* regulator_active after the regulator block of set_power
RegulatorAfter(h, power_percent, io) ==
    IF TargetUvPositive(h, power_percent, io)
    THEN (IF ~h.regulator_active THEN io.reg_ok ELSE TRUE)
    ELSE (IF h.regulator_active THEN ~io.reg_ok ELSE FALSE)

\* whether the regulator device itself is enabled after the regulator block:
\* regulator_enable and regulator_disable switch the device when they succeed
\* and nothing else in the module touches it
RegulatorOnAfter(h, power_percent, io) ==
    IF TargetUvPositive(h, power_percent, io)
    THEN (IF ~h.regulator_active THEN (io.reg_ok \/ h.regulator_on)
          ELSE h.regulator_on)
    ELSE (IF h.regulator_active THEN (~io.reg_ok /\ h.regulator_on)
          ELSE h.regulator_on)

\* a variant of set_power without the test of the enabled flag
set_power_on_disabled(hs, heater_id, power_percent, io) ==
    LET idx == FindHeater(hs, heater_id)
    IN  IF idx = 0 THEN [hs |-> hs, ret |-> -2]
        ELSE [hs |-> [hs EXCEPT ![idx].power_percent = ClampPercent(power_percent)],
              ret |-> 0]

heater_manager_set_power(hs, heater_id, power_percent, io) ==
    LET p == ClampPercent(power_percent)
        idx == FindHeater(hs, heater_id)
    IN  IF idx = 0 THEN [hs |-> hs, ret |-> -2]
        ELSE IF ~hs[idx].enabled THEN [hs |-> hs, ret |-> -3]
        ELSE LET stored == [hs EXCEPT ![idx].power_percent = p]
             IN  IF hs[idx].type = "HIGH_POWER" /\ hs[idx].regulator_dev # "NULL"
                 THEN IF hs[idx].status = "ERROR"
                      THEN [hs |-> stored, ret |-> -4]
                      ELSE [hs |-> [stored EXCEPT ![idx].regulator_active =
                                       RegulatorAfter(hs[idx], p, io),
                                                  ![idx].regulator_on =
                                       RegulatorOnAfter(hs[idx], p, io)],
                            ret |-> 0]
                 ELSE [hs |-> stored, ret |-> 0]

\* io used by calls that cannot reach the regulator driver's outcome
NoIo == [reg_ok |-> TRUE, ub_uv_pos |-> FALSE]

\* the driver outcomes that one set_power call can observe
SetPowerIos(hs, heater_id, power_percent) ==
    LET p == ClampPercent(power_percent)
        idx == FindHeater(hs, heater_id)
    IN  IF idx = 0 THEN {NoIo}
        ELSE IF \/ ~hs[idx].enabled
                \/ hs[idx].type # "HIGH_POWER"
                \/ hs[idx].regulator_dev = "NULL"
                \/ hs[idx].status = "ERROR"
        THEN {NoIo}
        ELSE { io \in IoOutcomes :
                 /\ io.ub_uv_pos => UvUndefined(hs[idx], p)
                 /\ ~io.reg_ok =>
                       (TargetUvPositive(hs[idx], p, io) # hs[idx].regulator_active) }

RECURSIVE SetAllOff(_, _)
SetAllOff(hs, i) ==
    IF i > Len(hs) THEN hs
    ELSE SetAllOff(heater_manager_set_power(hs, hs[i].id, I(0), NoIo).hs, i + 1)

\* heater_state after heater_manager_init(config) returned 0
heater_manager_init(config) ==
    LET entry(c) ==
            [id |-> c.id,
             power_percent |-> I(0),
             max_power_watts |-> c.max_power_w,
             resistance_ohms |-> c.resistance_ohms,
             type |-> c.type,
             enabled |-> c.enabled,
             status |-> IF c.type = "HIGH_POWER" /\ c.regulator_dev # "ready"
                        THEN "ERROR"
                        ELSE IF c.enabled THEN "OK" ELSE "DISABLED",
             regulator_dev |-> IF c.type = "HIGH_POWER" THEN c.regulator_dev
                               ELSE "NULL",
             regulator_active |-> FALSE,
             \* the device as the boot leaves it
             regulator_on |-> FALSE]
    IN  SetAllOff([i \in 1..Len(config.heaters) |-> entry(config.heaters[i])], 1)

RECURSIVE TotalMaxPower(_, _, _)
TotalMaxPower(hs, heater_ids, i) ==
    IF i > Len(heater_ids) THEN I(0)
    ELSE LET j == FindHeater(hs, heater_ids[i])
             rest == TotalMaxPower(hs, heater_ids, i + 1)
         IN  IF j = 0 THEN rest ELSE FAdd(hs[j].max_power_watts, rest)

ClampTotalPower(total_power_watts, total_max_power) ==
    LET hi == IF FGt(total_power_watts, total_max_power) THEN total_max_power
              ELSE total_power_watts
    IN  IF FLt(hi, I(0)) THEN I(0) ELSE hi

\* power_percent computed for heater h in the distribution loop
SharePercent(h, total_power_watts, total_max_power) ==
    LET fraction == FDiv(h.max_power_watts, total_max_power)
        heater_power == FMul(total_power_watts, fraction)
    IN  FMul(FDiv(heater_power, h.max_power_watts), I(100))

\* the set_power calls of one distribute_power call, in order: <<id, percent>>
RECURSIVE DistributeCalls(_, _, _, _, _)
DistributeCalls(hs, heater_ids, total_power_watts, total_max_power, i) ==
    IF i > Len(heater_ids) THEN <<>>
    ELSE LET j == FindHeater(hs, heater_ids[i])
             rest == DistributeCalls(hs, heater_ids, total_power_watts,
                                     total_max_power, i + 1)
         IN  IF j = 0 THEN rest
             ELSE <<<<heater_ids[i],
                      SharePercent(hs[j], total_power_watts, total_max_power)>>>>
                  \o rest

\* a variant of distribute_power without the test of the summed capacity
distribute_without_capacity_test(hs, heater_ids, total_power_watts) ==
    CHOOSE plan \in
        { IF Len(heater_ids) <= 0 THEN [ret |-> -1, calls |-> <<>>]
          ELSE [ret |-> 0,
                calls |-> DistributeCalls(hs, heater_ids,
                              ClampTotalPower(total_power_watts, total_max_power),
                              total_max_power, 1)] :
          total_max_power \in { TotalMaxPower(hs, heater_ids, 1) } } : TRUE

\* what distribute_power decides before its first set_power call
DistributePlan(hs, heater_ids, total_power_watts) ==
    CHOOSE plan \in
        { IF Len(heater_ids) <= 0 THEN [ret |-> -1, calls |-> <<>>]
          ELSE IF FLe(total_max_power, I(0)) THEN [ret |-> -2, calls |-> <<>>]
          ELSE [ret |-> 0,
                calls |-> DistributeCalls(hs, heater_ids,
                              ClampTotalPower(total_power_watts, total_max_power),
                              total_max_power, 1)] :
          total_max_power \in { TotalMaxPower(hs, heater_ids, 1) } } : TRUE

\* heater_state after the calls from the k-th on, for every driver outcome
RECURSIVE ApplyCalls(_, _, _)
ApplyCalls(hs, calls, k) ==
    IF k > Len(calls) THEN {hs}
    ELSE UNION { UNION { ApplyCalls(after, calls, k + 1) :
                         after \in { heater_manager_set_power(
                                         hs, calls[k][1], calls[k][2], io).hs } } :
                 io \in SetPowerIos(hs, calls[k][1], calls[k][2]) }

\* a distribute_power call no other context interleaves with: its return
\* value and the heater_state it can leave
heater_manager_distribute_power(hs, heater_ids, total_power_watts) ==
    CHOOSE r \in { [hss |-> ApplyCalls(hs, plan.calls, 1), ret |-> plan.ret] :
                    plan \in { DistributePlan(hs, heater_ids, total_power_watts) } } :
        TRUE

\* an emergency stop whose sweep ends one entry early
emergency_stop_short_sweep(hs) ==
    [j \in 1..Len(hs) |->
        IF j < Len(hs) THEN [hs[j] EXCEPT !.power_percent = I(0)] ELSE hs[j]]

heater_manager_emergency_stop(hs) ==
    [j \in 1..Len(hs) |-> [hs[j] EXCEPT !.power_percent = I(0)]]

heater_manager_get_power(hs, heater_id) ==
    LET idx == FindHeater(hs, heater_id)
    IN  IF idx = 0 THEN [ret |-> -2, power_percent |-> NaN]
        ELSE [ret |-> 0, power_percent |-> hs[idx].power_percent]

-----------------------------------------------------------------------------
(* sensor registry: lib/sensors/sensor_manager.c *)
(* reading.timestamp_ms is left out: no operation of the model reads it *)

\* sensor_cache after sensor_manager_init(config) returned 0
sensor_manager_init(config) ==
    [i \in 1..Len(config.sensors) |->
        [id |-> config.sensors[i].id,
         reading |-> [temperature_kelvin |-> I(0), status |-> "OK"],
         valid |-> FALSE]]

\* a variant of the sweep that leaves a sensor whose read failed as it was
read_all_keeps_stale(cache, config, samples) ==
    [i \in 1..Len(cache) |->
        IF ~config.sensors[i].enabled \/ samples[i] = "fail" THEN cache[i]
        ELSE [cache[i] EXCEPT !.reading = [temperature_kelvin |-> samples[i],
                                           status |-> "OK"],
                              !.valid = TRUE]]

\* a variant of the sweep that also reads the sensors the configuration
\* disables
read_all_reads_disabled(cache, config, samples) ==
    [i \in 1..Len(cache) |->
        IF samples[i] # "fail"
        THEN [cache[i] EXCEPT !.reading = [temperature_kelvin |-> samples[i],
                                           status |-> "OK"],
                              !.valid = TRUE]
        ELSE [cache[i] EXCEPT !.reading.status = "READ_ERROR", !.valid = FALSE]]

\* one sweep; samples[i] is "fail" or the temperature the source of sensor i
\* converts to
sensor_manager_read_all(cache, config, samples) ==
    [i \in 1..Len(cache) |->
        IF ~config.sensors[i].enabled THEN cache[i]
        ELSE IF samples[i] # "fail"
        THEN [cache[i] EXCEPT !.reading = [temperature_kelvin |-> samples[i],
                                           status |-> "OK"],
                              !.valid = TRUE]
        ELSE [cache[i] EXCEPT !.reading.status = "READ_ERROR", !.valid = FALSE]]

\* the value read_all returns for the sweep
ReadAllResult(config, samples) ==
    LET errors == Cardinality({ i \in 1..Len(config.sensors) :
                                  config.sensors[i].enabled /\ samples[i] = "fail" })
    IN  IF errors > 0 THEN -errors ELSE 0

FindSensor(cache, sensor_id) ==
    IF \E j \in 1..Len(cache) : cache[j].id = sensor_id
    THEN CHOOSE j \in 1..Len(cache) :
            /\ cache[j].id = sensor_id
            /\ \A k \in 1..(j - 1) : cache[k].id # sensor_id
    ELSE 0

RECURSIVE SumValid(_, _, _)
SumValid(cache, sensor_ids, i) ==
    IF i > Len(sensor_ids) THEN [sum |-> I(0), valid_count |-> 0]
    ELSE LET idx == FindSensor(cache, sensor_ids[i])
             rest == SumValid(cache, sensor_ids, i + 1)
         IN  IF idx > 0 /\ cache[idx].valid
             THEN [sum |-> FAdd(cache[idx].reading.temperature_kelvin, rest.sum),
                   valid_count |-> rest.valid_count + 1]
             ELSE rest

\* a variant of the average that divides by the number of names given
average_over_named(cache, sensor_ids) ==
    LET acc == SumValid(cache, sensor_ids, 1)
    IN  IF Len(sensor_ids) <= 0 THEN [ret |-> -1, avg_temp |-> NaN]
        ELSE IF acc.valid_count = 0 THEN [ret |-> -2, avg_temp |-> NaN]
        ELSE [ret |-> 0, avg_temp |-> FDiv(acc.sum, I(Len(sensor_ids)))]

sensor_manager_get_average(cache, sensor_ids) ==
    LET acc == SumValid(cache, sensor_ids, 1)
    IN  IF Len(sensor_ids) <= 0 THEN [ret |-> -1, avg_temp |-> NaN]
        ELSE IF acc.valid_count = 0 THEN [ret |-> -2, avg_temp |-> NaN]
        ELSE [ret |-> 0, avg_temp |-> FDiv(acc.sum, I(acc.valid_count))]

\* a variant of the lookup that reports an invalid entry as an unknown id
get_reading_one_failure(cache, sensor_id, reading) ==
    LET idx == FindSensor(cache, sensor_id)
    IN  IF idx = 0 \/ ~cache[idx].valid THEN [ret |-> -2, reading |-> reading]
        ELSE [ret |-> 0, reading |-> cache[idx].reading]

\* reading is the caller's buffer: the value it returns is what the buffer
\* holds once the call is over
sensor_manager_get_reading(cache, sensor_id, reading) ==
    LET idx == FindSensor(cache, sensor_id)
    IN  IF idx = 0 THEN [ret |-> -2, reading |-> reading]
        ELSE IF ~cache[idx].valid THEN [ret |-> -3, reading |-> reading]
        ELSE [ret |-> 0, reading |-> cache[idx].reading]

sensor_manager_is_valid(cache, sensor_id) ==
    LET idx == FindSensor(cache, sensor_id)
    IN  idx > 0 /\ cache[idx].valid

-----------------------------------------------------------------------------
(* PID controller: lib/coo_commons/pid.c *)

coo_pid_init(kp, ki, kd, output_min, output_max) ==
    [kp |-> kp, ki |-> ki, kd |-> kd,
     integral |-> I(0), prev_error |-> I(0),
     output_min |-> output_min, output_max |-> output_max,
     integral_min |-> output_min, integral_max |-> output_max]

\* a variant of the reset that leaves the previous error
reset_keeps_prev_error(pid) == [pid EXCEPT !.integral = I(0)]

coo_pid_reset(pid) == [pid EXCEPT !.integral = I(0), !.prev_error = I(0)]

coo_pid_set_gains(pid, kp, ki, kd) == [pid EXCEPT !.kp = kp, !.ki = ki, !.kd = kd]

\* the controller after the update and the output the update returns
coo_pid_update(pid, setpoint, measured, dt) ==
    LET error == FSub(setpoint, measured)
        p_term == FMul(pid.kp, error)
        summed == FAdd(pid.integral, FMul(error, dt))
        integral == IF FGt(summed, pid.integral_max) THEN pid.integral_max
                    ELSE IF FLt(summed, pid.integral_min) THEN pid.integral_min
                    ELSE summed
        i_term == FMul(pid.ki, integral)
        derivative == IF FGt(dt, I(0)) THEN FDiv(FSub(error, pid.prev_error), dt)
                      ELSE I(0)
        d_term == FMul(pid.kd, derivative)
        raw == FAdd(FAdd(p_term, i_term), d_term)
        output == IF FGt(raw, pid.output_max) THEN pid.output_max
                  ELSE IF FLt(raw, pid.output_min) THEN pid.output_min
                  ELSE raw
    IN  [pid |-> [pid EXCEPT !.integral = integral, !.prev_error = error],
         output |-> output]

-----------------------------------------------------------------------------
(* control loop engine: lib/control/control_loop.c *)

\* loop_state after control_loop_init(config) returned 0
control_loop_init(config) ==
    [i \in 1..Len(config.control_loops) |->
        LET c == config.control_loops[i]
        IN  [id |-> c.id,
             enabled |-> c.enabled /\ c.default_state_on,
             suspended |-> FALSE,
             status |-> "OK",
             sensor_ids |-> c.sensor_ids,
             heater_ids |-> c.heater_ids,
             target_temp_kelvin |-> c.default_target_temperature,
             current_setpoint |-> c.default_target_temperature,
             alarm_min_temp |-> c.alarm_min_temp,
             alarm_max_temp |-> c.alarm_max_temp,
             power_limit_min |-> c.heater_power_limit_min,
             power_limit_max |-> c.heater_power_limit_max,
             follows_loop_id |-> c.follows_loop_id,
             follows_scalar |-> c.follows_loop_scalar,
             \* only a PID loop has its controller initialised: for the
             \* other algorithms the controller stays as the zeroed static
             \* storage holds it
             pid |-> IF c.control_algorithm = "PID"
                     THEN coo_pid_init(c.p_gain, c.i_gain, c.d_gain,
                                       c.heater_power_limit_min,
                                       c.heater_power_limit_max)
                     ELSE [kp |-> I(0), ki |-> I(0), kd |-> I(0),
                           integral |-> I(0), prev_error |-> I(0),
                           output_min |-> I(0), output_max |-> I(0),
                           integral_min |-> I(0), integral_max |-> I(0)]]]

\* index of the first loop_state entry whose id is loop_id, 0 when none
FindLoop(ls, loop_id) ==
    IF \E j \in 1..Len(ls) : ls[j].id = loop_id
    THEN CHOOSE j \in 1..Len(ls) :
            /\ ls[j].id = loop_id
            /\ \A k \in 1..(j - 1) : ls[k].id # loop_id
    ELSE 0

\* the measured temperature is outside the loop's alarm band
AlarmCondition(l, measured_temp) ==
    FLt(measured_temp, l.alarm_min_temp) \/ FGt(measured_temp, l.alarm_max_temp)

\* a variant of the tick that leaves the status it set earlier in the loop body
status_kept(l) == l

\* a variant of the setpoint resolution that forgets follows_scalar
resolve_without_scalar(ls, i) ==
    LET j == FindLoop(ls, ls[i].follows_loop_id)
    IN  IF ls[i].follows_loop_id # "" /\ j > 0 THEN ls[j].current_setpoint
        ELSE ls[i].current_setpoint

\* the setpoint update_all resolves for loop i and hands to the PID update
ResolveSetpoint(ls, i) ==
    LET j == FindLoop(ls, ls[i].follows_loop_id)
    IN  IF ls[i].follows_loop_id # "" /\ j > 0
        THEN FMul(ls[j].current_setpoint, ls[i].follows_scalar)
        ELSE ls[i].current_setpoint

\* the status update_all leaves on a loop once its heaters have been written
StatusAfterHeaterWrite(l) == "OK"

\* a variant of the target change that keeps the target below the alarm band's
\* upper end
set_target_below_alarm(ls, loop_id, target_kelvin) ==
    LET idx == FindLoop(ls, loop_id)
    IN  IF idx = 0 THEN [ls |-> ls, ret |-> -2]
        ELSE [ls |-> [ls EXCEPT ![idx].target_temp_kelvin =
                         IF FGt(target_kelvin, ls[idx].alarm_max_temp)
                         THEN ls[idx].alarm_max_temp ELSE target_kelvin],
              ret |-> 0]

control_loop_set_target(ls, loop_id, target_kelvin) ==
    LET idx == FindLoop(ls, loop_id)
    IN  IF idx = 0 THEN [ls |-> ls, ret |-> -2]
        ELSE [ls |-> [ls EXCEPT ![idx].target_temp_kelvin = target_kelvin], ret |-> 0]

control_loop_get_target(ls, loop_id) ==
    LET idx == FindLoop(ls, loop_id)
    IN  IF idx = 0 THEN [ret |-> -2, target_kelvin |-> NaN]
        ELSE [ret |-> 0, target_kelvin |-> ls[idx].target_temp_kelvin]

\* a variant of the switch that clears the PID controller in both directions
enable_always_resets(ls, loop_id, enable) ==
    LET idx == FindLoop(ls, loop_id)
    IN  IF idx = 0 THEN [ls |-> ls, ret |-> -2]
        ELSE [ls |-> [ls EXCEPT ![idx].enabled = enable,
                                ![idx].pid = coo_pid_reset(@)],
              ret |-> 0]

control_loop_enable(ls, loop_id, enable) ==
    LET idx == FindLoop(ls, loop_id)
    IN  IF idx = 0 THEN [ls |-> ls, ret |-> -2]
        ELSE [ls |-> [ls EXCEPT ![idx].enabled = enable,
                                ![idx].pid = IF enable THEN coo_pid_reset(@) ELSE @],
              ret |-> 0]

control_loop_suspend_all(ls) ==
    [i \in 1..Len(ls) |-> [ls[i] EXCEPT !.suspended = TRUE]]

\* a variant of the resume that leaves the PID controllers as they are
resume_without_reset(ls) ==
    [i \in 1..Len(ls) |-> [ls[i] EXCEPT !.suspended = FALSE]]

control_loop_resume_all(ls) ==
    [i \in 1..Len(ls) |-> [ls[i] EXCEPT !.suspended = FALSE,
                                        !.pid = coo_pid_reset(@)]]

\* a variant of the status query that answers OK for an id no loop carries
get_status_default_ok(ls, loop_id) ==
    LET idx == FindLoop(ls, loop_id)
    IN  IF idx = 0 THEN "OK" ELSE ls[idx].status

control_loop_get_status(ls, loop_id) ==
    LET idx == FindLoop(ls, loop_id)
    IN  IF idx = 0 THEN "NOT_INITIALIZED" ELSE ls[idx].status

\* a variant of the gain change that also resets the controller
set_gains_with_reset(ls, loop_id, kp, ki, kd) ==
    LET idx == FindLoop(ls, loop_id)
    IN  IF idx = 0 THEN [ls |-> ls, ret |-> -2]
        ELSE [ls |-> [ls EXCEPT ![idx].pid =
                         coo_pid_reset(coo_pid_set_gains(@, kp, ki, kd))],
              ret |-> 0]

control_loop_set_gains(ls, loop_id, kp, ki, kd) ==
    LET idx == FindLoop(ls, loop_id)
    IN  IF idx = 0 THEN [ls |-> ls, ret |-> -2]
        ELSE [ls |-> [ls EXCEPT ![idx].pid = coo_pid_set_gains(@, kp, ki, kd)],
              ret |-> 0]

-----------------------------------------------------------------------------
(* configurations and call arguments explored *)

\* heater_config_t entries, without their id
HeaterKinds ==
    << [type |-> "HIGH_POWER", max_power_w |-> I(2), resistance_ohms |-> I(30),
        enabled |-> TRUE, regulator_dev |-> "ready"],
       [type |-> "HIGH_POWER", max_power_w |-> I(2), resistance_ohms |-> I(30),
        enabled |-> TRUE, regulator_dev |-> "not_ready"],
       [type |-> "LOW_POWER", max_power_w |-> I(1), resistance_ohms |-> I(10),
        enabled |-> TRUE, regulator_dev |-> "NULL"],
       [type |-> "LOW_POWER", max_power_w |-> I(1), resistance_ohms |-> I(10),
        enabled |-> FALSE, regulator_dev |-> "NULL"],
       [type |-> "LOW_POWER", max_power_w |-> I(0), resistance_ohms |-> I(10),
        enabled |-> TRUE, regulator_dev |-> "NULL"] >>

\* heater tables of two entries: every unordered pair of kinds
HeaterTables ==
    UNION { { <<[id |-> "heater-1"] @@ HeaterKinds[a],
                [id |-> "heater-2"] @@ HeaterKinds[b]>> :
              b \in a..Len(HeaterKinds) } :
            a \in 1..Len(HeaterKinds) }

\* ids a caller may pass: the configured ones and one no heater carries
HeaterIdArgs == {"heater-1", "heater-2", "heater-x"}

HeaterIdLists ==
    { <<a>> : a \in HeaterIdArgs } \cup
    { <<"heater-1", "heater-2">>, <<"heater-2", "heater-1">>,
      <<"heater-1", "heater-x">>, <<"heater-x", "heater-2">>,
      <<"heater-1", "heater-1">> }

PercentArgs == { I(-5), I(50), I(150) }

WattArgs == { I(w) : w \in -1..MaxWatts }

\* the entry counts the three init functions keep for a configuration whose
\* tables they accept
Counts(config) ==
    [sensors |-> Len(config.sensors), heaters |-> Len(config.heaters),
     loops |-> Len(config.control_loops)]

\* power_percent of every heater_state entry, in table order
Powers(hs) == [j \in 1..Len(hs) |-> hs[j].power_percent]

\* last: the call, its arguments, its return value and the powers before it
NoCall == [op |-> "none", ids |-> <<>>, arg |-> I(0), ret |-> 0, pre |-> <<>>]

-----------------------------------------------------------------------------
(* the heater registry called from one context: every call runs to its return *)

HeaterInit ==
    /\ cfg \in { [sensors |-> <<>>, heaters |-> t, control_loops |-> <<>>] :
                   t \in HeaterTables }
    /\ heater_state = heater_manager_init(cfg)
    /\ sensor_cache = <<>>
    /\ loop_state = <<>>
    /\ num = Counts(cfg)
    /\ smp = [pc |-> "sleep"]
    /\ alarm_triggered = FALSE
    /\ ctl = [pc |-> "off"]
    /\ sup = [pc |-> "off"]
    /\ cmd = [pc |-> "off"]
    /\ last = NoCall

CallSetPower ==
    \E id \in HeaterIdArgs, p \in PercentArgs :
      \E io \in SetPowerIos(heater_state, id, p) :
        \E r \in { heater_manager_set_power(heater_state, id, p, io) } :
            /\ heater_state' = r.hs
            /\ last' = [op |-> "set_power", ids |-> <<id>>, arg |-> p, ret |-> r.ret,
                        pre |-> Powers(heater_state)]
            /\ UNCHANGED <<num, smp, cfg, sensor_cache, loop_state, alarm_triggered, ctl, sup, cmd>>

CallDistributePower ==
    \E ids \in HeaterIdLists, w \in WattArgs :
        \E r \in { heater_manager_distribute_power(heater_state, ids, w) } :
            /\ heater_state' \in r.hss
            /\ last' = [op |-> "distribute_power", ids |-> ids, arg |-> w, ret |-> r.ret,
                        pre |-> Powers(heater_state)]
            /\ UNCHANGED <<num, smp, cfg, sensor_cache, loop_state, alarm_triggered, ctl, sup, cmd>>

CallEmergencyStop ==
    /\ heater_state' = heater_manager_emergency_stop(heater_state)
    /\ last' = [op |-> "emergency_stop", ids |-> <<>>, arg |-> I(0), ret |-> 0,
                pre |-> Powers(heater_state)]
    /\ UNCHANGED <<num, smp, cfg, sensor_cache, loop_state, alarm_triggered, ctl, sup, cmd>>

\* heater_manager_init called again on the running module: it rebuilds
\* heater_state from the configuration and makes no call to the regulator
\* driver, so every regulator device stays as the calls before left it
CallInit ==
    /\ heater_state' =
          [j \in 1..Len(heater_state) |->
              [heater_manager_init(cfg)[j] EXCEPT
                  !.regulator_on = heater_state[j].regulator_on]]
    /\ last' = [op |-> "init", ids |-> <<>>, arg |-> I(0), ret |-> 0,
                pre |-> Powers(heater_state)]
    /\ UNCHANGED <<num, smp, cfg, sensor_cache, loop_state, alarm_triggered, ctl, sup, cmd>>

HeaterNext == CallSetPower \/ CallDistributePower \/ CallEmergencyStop

HeaterSpec == HeaterInit /\ [][HeaterNext]_vars

\* the registry driven and initialised again
ReinitNext == CallSetPower \/ CallEmergencyStop \/ CallInit

ReinitSpec == HeaterInit /\ [][ReinitNext]_vars

-----------------------------------------------------------------------------
(* the application: app/src/main.c, with an external command context *)

\* the period the control thread passes to update_all, in seconds
ControlPeriod == F(1, 2)

SensorTable ==
    << [id |-> "sensor-1", enabled |-> TRUE],
       [id |-> "sensor-2", enabled |-> TRUE] >>

HeaterTable ==
    << [id |-> "heater-1"] @@ HeaterKinds[1],
       [id |-> "heater-2"] @@ HeaterKinds[3] >>

\* a control_loop_config_t entry with the fields the explored tables share
LoopEntry(id, sensor_ids, heater_ids, error_condition, follows, scalar) ==
    [id |-> id, sensor_ids |-> sensor_ids, heater_ids |-> heater_ids,
     default_target_temperature |-> I(4), default_state_on |-> TRUE,
     control_algorithm |-> "PID",
     p_gain |-> I(1), i_gain |-> I(1), d_gain |-> I(0),
     error_condition |-> error_condition,
     alarm_min_temp |-> I(2), alarm_max_temp |-> I(5),
     heater_power_limit_min |-> I(0), heater_power_limit_max |-> I(1),
     follows_loop_id |-> follows, follows_loop_scalar |-> scalar,
     enabled |-> TRUE]

\* two independent zones
IndependentLoops ==
    << LoopEntry("loop-1", <<"sensor-1">>, <<"heater-1">>, "STOP", "", I(1)),
       LoopEntry("loop-2", <<"sensor-2">>, <<"heater-2">>, "ALARM", "", I(1)) >>

LoopTables ==
    { IndependentLoops,
      \* the second zone also drives the first zone's heater
      << LoopEntry("loop-1", <<"sensor-1">>, <<"heater-1">>, "STOP", "", I(1)),
         LoopEntry("loop-2", <<"sensor-2">>, <<"heater-1", "heater-2">>, "ALARM",
                   "", I(1)) >> }

\* what the source of one sensor yields in one sweep
SampleOutcomes == { "fail", I(2), I(6) }

LoopIdArgs == { "loop-1", "loop-2", "loop-x" }

TargetArgs == { I(3) }

\* the control thread before its first tick; raised, dist and set_power_failed
\* record what the latest tick met: per loop the condition it raised and the
\* value distribute_power returned, and whether a set_power call failed
TickIdle(n) ==
    [pc |-> "sleep", i |-> 0, errors |-> 0, calls |-> <<>>, plan |-> <<>>,
     raised |-> [i \in 1..n |-> "none"], dist |-> [i \in 1..n |-> 0],
     set_power_failed |-> FALSE, ret |-> 0]

Init ==
    /\ cfg \in { [sensors |-> SensorTable, heaters |-> HeaterTable,
                  control_loops |-> t] : t \in LoopTables }
    /\ sensor_cache = sensor_manager_init(cfg)
    /\ heater_state = heater_manager_init(cfg)
    /\ loop_state = control_loop_init(cfg)
    /\ num = Counts(cfg)
    /\ smp = [pc |-> "sleep"]
    /\ alarm_triggered = FALSE
    /\ ctl = TickIdle(Len(cfg.control_loops))
    /\ sup = [pc |-> "scan", i |-> 1]
    /\ cmd = [pc |-> "idle", left |-> MaxCommands, escalated |-> FALSE]
    /\ last = NoCall

\* control_mutex is free: no update_all is between its lock and its unlock
MutexFree == ctl.pc \notin {"loop", "set_power"}

(* sensor thread *)

SensorReadAll ==
    \E samples \in [1..Len(sensor_cache) -> SampleOutcomes] :
        /\ sensor_cache' = sensor_manager_read_all(sensor_cache, cfg, samples)
        /\ UNCHANGED <<num, smp, cfg, heater_state, loop_state, alarm_triggered, ctl, sup,
                       cmd, last>>

(* control thread *)

\* a variant of the skip test that overlooks the suspended flag
skip_unless_enabled(l) == ~l.enabled

\* update_all passes over loop l without touching it
LoopSkipped(l) == ~l.enabled \/ l.suspended

\* a variant of the failure branch that leaves the failure out of the count
sensor_failure_uncounted(ls, i) ==
    [raised |-> "sensor", ls |-> [ls EXCEPT ![i].status = "SENSOR_ERROR"],
     errors |-> 0, calls |-> <<>>, written |-> FALSE, dist |-> 0]

\* update_all on loop i when sensor_manager_get_average has failed
SensorFailure(ls, i) ==
    [raised |-> "sensor", ls |-> [ls EXCEPT ![i].status = "SENSOR_ERROR"],
     errors |-> 1, calls |-> <<>>, written |-> FALSE, dist |-> 0]

\* a variant of the tick that leaves a loop in alarm without updating its
\* controller or writing its heaters
tick_alarm_skips_loop(ls, cache, hs, i, dt) ==
    LET l == ls[i]
        avg == sensor_manager_get_average(cache, l.sensor_ids)
    IN  IF LoopSkipped(l)
        THEN [raised |-> "none", ls |-> ls, errors |-> 0, calls |-> <<>>,
              written |-> FALSE, dist |-> 0]
        ELSE IF avg.ret # 0
        THEN SensorFailure(ls, i)
        ELSE IF AlarmCondition(l, avg.avg_temp)
        THEN [raised |-> "alarm", ls |-> [ls EXCEPT ![i].status = "ALARM"],
              errors |-> 1, calls |-> <<>>, written |-> FALSE, dist |-> 0]
        ELSE LET setpoint == ResolveSetpoint(ls, i)
                 upd == coo_pid_update(l.pid, setpoint, avg.avg_temp, dt)
                 plan == DistributePlan(hs, l.heater_ids, upd.output)
             IN  [raised |-> "ok",
                  ls |-> [ls EXCEPT ![i].current_setpoint = setpoint,
                                    ![i].pid = upd.pid],
                  errors |-> IF plan.ret # 0 THEN 1 ELSE 0,
                  calls |-> plan.calls, written |-> TRUE, dist |-> plan.ret]

\* update_all on loop i, up to the first set_power call of its distribution;
\* dist is the value heater_manager_distribute_power returns to it
TickLoop(ls, cache, hs, i, dt) ==
    LET l == ls[i]
        avg == sensor_manager_get_average(cache, l.sensor_ids)
    IN  IF LoopSkipped(l)
        THEN [raised |-> "none", ls |-> ls, errors |-> 0, calls |-> <<>>,
              written |-> FALSE, dist |-> 0]
        ELSE IF avg.ret # 0
        THEN SensorFailure(ls, i)
        ELSE LET alarm == AlarmCondition(l, avg.avg_temp)
                 marked == IF alarm THEN [ls EXCEPT ![i].status = "ALARM"] ELSE ls
                 setpoint == ResolveSetpoint(marked, i)
                 upd == coo_pid_update(l.pid, setpoint, avg.avg_temp, dt)
                 plan == DistributePlan(hs, l.heater_ids, upd.output)
             IN  [raised |-> IF alarm THEN "alarm" ELSE "ok",
                  ls |-> [marked EXCEPT ![i].current_setpoint = setpoint,
                                        ![i].pid = upd.pid],
                  errors |-> (IF alarm THEN 1 ELSE 0) +
                             (IF plan.ret # 0 THEN 1 ELSE 0),
                  calls |-> plan.calls, written |-> TRUE, dist |-> plan.ret]

\* a variant of the tick that returns at the first loop that raised a condition
tick_abort_on_error(c, n) ==
    IF c.i < n /\ c.errors = 0
    THEN [c EXCEPT !.pc = "loop", !.i = c.i + 1, !.calls = <<>>, !.plan = <<>>]
    ELSE [c EXCEPT !.pc = "sleep", !.i = 0, !.calls = <<>>, !.plan = <<>>,
                   !.ret = IF c.errors > 0 THEN -c.errors ELSE 0]

\* the tick moves on from loop i: to the next loop, or to its unlock and return
TickAdvance(c, n) ==
    IF c.i < n
    THEN [c EXCEPT !.pc = "loop", !.i = c.i + 1, !.calls = <<>>, !.plan = <<>>]
    ELSE [c EXCEPT !.pc = "sleep", !.i = 0, !.calls = <<>>, !.plan = <<>>,
                   !.ret = IF c.errors > 0 THEN -c.errors ELSE 0]

CtlCheck ==
    /\ ctl.pc = "sleep"
    /\ ~alarm_triggered
    /\ ctl' = [ctl EXCEPT !.pc = "lock"]
    /\ UNCHANGED <<num, smp, cfg, sensor_cache, heater_state, loop_state, alarm_triggered,
                   sup, cmd, last>>

CtlLock ==
    /\ ctl.pc = "lock"
    /\ ctl' = TickAdvance([ctl EXCEPT !.i = 0, !.errors = 0,
                                      !.raised = [i \in 1..Len(loop_state) |-> "none"],
                                      !.dist = [i \in 1..Len(loop_state) |-> 0],
                                      !.set_power_failed = FALSE],
                          Len(loop_state))
    /\ UNCHANGED <<num, smp, cfg, sensor_cache, heater_state, loop_state, alarm_triggered,
                   sup, cmd, last>>

CtlLoop ==
    /\ ctl.pc = "loop"
    /\ \E r \in { TickLoop(loop_state, sensor_cache, heater_state, ctl.i,
                             ControlPeriod) } :
        \E c \in { [ctl EXCEPT !.errors = @ + r.errors,
                                !.raised[ctl.i] = r.raised,
                                !.dist[ctl.i] = r.dist] } :
           IF r.calls # <<>>
           THEN /\ loop_state' = r.ls
                /\ ctl' = [c EXCEPT !.pc = "set_power", !.calls = r.calls,
                                    !.plan = r.calls]
           ELSE /\ loop_state' =
                      IF r.written
                      THEN [r.ls EXCEPT ![ctl.i].status = StatusAfterHeaterWrite(@)]
                      ELSE r.ls
                /\ ctl' = TickAdvance(c, Len(loop_state))
    /\ UNCHANGED <<num, smp, cfg, sensor_cache, heater_state, alarm_triggered, sup, cmd, last>>

CtlSetPower ==
    /\ ctl.pc = "set_power"
    /\ \E io \in SetPowerIos(heater_state, ctl.calls[1][1], ctl.calls[1][2]) :
        \E r \in { heater_manager_set_power(heater_state, ctl.calls[1][1],
                                             ctl.calls[1][2], io) } :
        \E c \in { [ctl EXCEPT !.set_power_failed = (@ \/ r.ret # 0)] } :
           /\ heater_state' = r.hs
           /\ IF Len(ctl.calls) > 1
              THEN /\ ctl' = [c EXCEPT !.calls = Tail(@)]
                   /\ UNCHANGED loop_state
              ELSE /\ loop_state' = [loop_state EXCEPT
                                        ![ctl.i].status = StatusAfterHeaterWrite(@)]
                   /\ ctl' = TickAdvance(c, Len(loop_state))
    /\ UNCHANGED <<num, smp, cfg, sensor_cache, alarm_triggered, sup, cmd, last>>

\* the tick run to its return with no other context in between
\* control_loop_update_all from loop i on: the loop_state and heater_state
\* it can leave, for every driver outcome
RECURSIVE UpdateAll(_, _, _, _, _)
UpdateAll(ls, cache, hs, i, dt) ==
    IF i > Len(ls) THEN { [ls |-> ls, hs |-> hs] }
    ELSE UNION { UNION { UpdateAll(IF r.written
                                   THEN [r.ls EXCEPT
                                           ![i].status = StatusAfterHeaterWrite(@)]
                                   ELSE r.ls,
                                   cache, after, i + 1, dt) :
                         after \in ApplyCalls(hs, r.calls, 1) } :
                 r \in { TickLoop(ls, cache, hs, i, dt) } }

ApiUpdateAll ==
    \E r \in UpdateAll(loop_state, sensor_cache, heater_state, 1, ControlPeriod) :
        /\ loop_state' = r.ls
        /\ heater_state' = r.hs
        /\ UNCHANGED <<num, smp, cfg, sensor_cache, alarm_triggered, ctl, sup, cmd, last>>

(* supervisor loop: monitor_system_health *)

\* a supervisor that starts with a seen field keeps in it the loop
\* monitor_system_health last asked the status of, the status it got and what
\* the latest tick had raised for that loop
SupAdvance(u, n) == [u EXCEPT !.pc = "scan", !.i = IF u.i < n THEN u.i + 1 ELSE 1]

Supervisor ==
    /\ sup.pc \in {"scan", "estop", "suspend"}
    /\ CASE sup.pc = "scan" ->
              LET c == cfg.control_loops[sup.i]
                  status == control_loop_get_status(loop_state, c.id)
              IN  IF ~c.enabled
                  THEN /\ sup' = SupAdvance(sup, Len(cfg.control_loops))
                       /\ UNCHANGED <<alarm_triggered, heater_state, loop_state>>
                  ELSE /\ MutexFree
                       /\ alarm_triggered' =
                             (alarm_triggered \/ status = "ALARM")
                       /\ \E u \in { IF "seen" \in DOMAIN sup
                                      THEN [sup EXCEPT !.seen = <<sup.i, status,
                                                                  ctl.raised[sup.i]>>]
                                      ELSE sup } :
                             sup' = IF /\ status = "ALARM"
                                       /\ ~alarm_triggered
                                       /\ c.error_condition = "STOP"
                                    THEN [u EXCEPT !.pc = "estop"]
                                    ELSE SupAdvance(u, Len(cfg.control_loops))
                       /\ UNCHANGED <<heater_state, loop_state>>
         [] sup.pc = "estop" ->
              /\ heater_state' = heater_manager_emergency_stop(heater_state)
              /\ sup' = [sup EXCEPT !.pc = "suspend"]
              /\ UNCHANGED <<alarm_triggered, loop_state>>
         [] sup.pc = "suspend" ->
              /\ MutexFree
              /\ loop_state' = control_loop_suspend_all(loop_state)
              /\ sup' = SupAdvance(sup, Len(cfg.control_loops))
              /\ UNCHANGED <<alarm_triggered, heater_state>>
    /\ UNCHANGED <<num, smp, cfg, sensor_cache, ctl, cmd, last>>

(* external command context *)

CmdReady == cmd.pc = "idle" /\ cmd.left > 0

CmdSetTarget ==
    /\ CmdReady
    /\ MutexFree
    /\ \E id \in LoopIdArgs, t \in TargetArgs :
          loop_state' = control_loop_set_target(loop_state, id, t).ls
    /\ cmd' = [cmd EXCEPT !.left = @ - 1]
    /\ UNCHANGED <<num, smp, cfg, sensor_cache, heater_state, alarm_triggered, ctl, sup, last>>

CmdEnable ==
    /\ CmdReady
    /\ MutexFree
    /\ \E id \in LoopIdArgs, enable \in BOOLEAN :
          loop_state' = control_loop_enable(loop_state, id, enable).ls
    /\ cmd' = [cmd EXCEPT !.left = @ - 1]
    /\ UNCHANGED <<num, smp, cfg, sensor_cache, heater_state, alarm_triggered, ctl, sup, last>>

CmdSuspendAll ==
    /\ CmdReady
    /\ MutexFree
    /\ loop_state' = control_loop_suspend_all(loop_state)
    /\ cmd' = [cmd EXCEPT !.left = @ - 1]
    /\ UNCHANGED <<num, smp, cfg, sensor_cache, heater_state, alarm_triggered, ctl, sup, last>>

CmdResumeAll ==
    /\ CmdReady
    /\ MutexFree
    /\ loop_state' = control_loop_resume_all(loop_state)
    /\ cmd' = [cmd EXCEPT !.left = @ - 1, !.escalated = FALSE]
    /\ UNCHANGED <<num, smp, cfg, sensor_cache, heater_state, alarm_triggered, ctl, sup, last>>

\* the alarm escalation sequence: emergency_stop, then suspend_all
CmdEmergencyStop ==
    /\ CmdReady
    /\ heater_state' = heater_manager_emergency_stop(heater_state)
    /\ cmd' = [cmd EXCEPT !.pc = "stopped", !.left = @ - 1]
    /\ UNCHANGED <<num, smp, cfg, sensor_cache, loop_state, alarm_triggered, ctl, sup, last>>

CmdSuspendAfterStop ==
    /\ cmd.pc = "stopped"
    /\ MutexFree
    /\ loop_state' = control_loop_suspend_all(loop_state)
    /\ cmd' = [cmd EXCEPT !.pc = "idle", !.escalated = TRUE]
    /\ UNCHANGED <<num, smp, cfg, sensor_cache, heater_state, alarm_triggered, ctl, sup, last>>

Next ==
    \/ SensorReadAll
    \/ CtlCheck \/ CtlLock \/ CtlLoop \/ CtlSetPower
    \/ CmdSetTarget \/ CmdEnable \/ CmdSuspendAll \/ CmdResumeAll
    \/ CmdEmergencyStop \/ CmdSuspendAfterStop

Spec == Init /\ [][Next]_vars

\* the three contexts of main.c alone, each scheduled fairly: the sensor
\* thread, the control thread and the supervisor loop sleep for a bounded time
\* and run again; the supervisor, which waits on control_mutex with K_FOREVER,
\* obtains it between two ticks
ControlThread == CtlCheck \/ CtlLock \/ CtlLoop \/ CtlSetPower

FairNext == SensorReadAll \/ ControlThread \/ Supervisor

\* both zones measured by the one sensor
SharedSensorLoops ==
    << LoopEntry("loop-1", <<"sensor-1">>, <<"heater-1">>, "STOP", "", I(1)),
       LoopEntry("loop-2", <<"sensor-1">>, <<"heater-2">>, "ALARM", "", I(1)) >>

FairInit ==
    /\ cfg = [sensors |-> <<SensorTable[1]>>, heaters |-> HeaterTable,
              control_loops |-> SharedSensorLoops]
    /\ sensor_cache = sensor_manager_init(cfg)
    /\ heater_state = heater_manager_init(cfg)
    /\ loop_state = control_loop_init(cfg)
    /\ num = Counts(cfg)
    /\ smp = [pc |-> "sleep"]
    /\ alarm_triggered = FALSE
    /\ ctl = TickIdle(Len(cfg.control_loops))
    /\ sup = [pc |-> "scan", i |-> 1]
    /\ cmd = [pc |-> "off"]
    /\ last = NoCall

FairSpec ==
    /\ FairInit
    /\ [][FairNext]_vars
    /\ WF_vars(SensorReadAll)
    /\ WF_vars(ControlThread)
    /\ SF_vars(Supervisor)

\* the tick alone, over tables with a following zone, a disabled zone and
\* heaters that cannot be actuated
TickHeaterTable ==
    << [id |-> "heater-1"] @@ HeaterKinds[1],
       [id |-> "heater-2"] @@ HeaterKinds[3],
       [id |-> "heater-3"] @@ HeaterKinds[5],
       [id |-> "heater-4"] @@ HeaterKinds[4],
       [id |-> "heater-5"] @@ HeaterKinds[2] >>

TickTables ==
    { \* the second zone follows the first at half its setpoint
      << LoopEntry("loop-1", <<"sensor-1">>, <<"heater-1">>, "STOP", "", I(1)),
         LoopEntry("loop-2", <<"sensor-2">>, <<"heater-2">>, "ALARM", "loop-1",
                   F(1, 2)) >>,
      \* the following zone comes first in the table
      << LoopEntry("loop-1", <<"sensor-1">>, <<"heater-1">>, "STOP", "loop-2",
                   F(1, 2)),
         LoopEntry("loop-2", <<"sensor-2">>, <<"heater-2">>, "ALARM", "", I(1)) >>,
      \* the first zone's only heater has no capacity; the last zone is disabled
      << LoopEntry("loop-1", <<"sensor-1">>, <<"heater-3">>, "ALARM", "", I(1)),
         LoopEntry("loop-2", <<"sensor-2">>, <<"heater-2">>, "ALARM", "", I(1)),
         [LoopEntry("loop-3", <<"sensor-1">>, <<"heater-1">>, "ALARM", "", I(1))
             EXCEPT !.enabled = FALSE] >>,
      \* a disabled heater beside a sound one, and a heater whose regulator
      \* device is not ready
      << LoopEntry("loop-1", <<"sensor-1">>, <<"heater-4", "heater-2">>, "ALARM",
                   "", I(1)),
         LoopEntry("loop-2", <<"sensor-2">>, <<"heater-5">>, "ALARM", "", I(1)) >>,
      \* the second zone is an on/off zone that never lets its heater fall
      \* below half a watt; the first zone's alarm band lies above the coldest
      \* reading
      << [LoopEntry("loop-1", <<"sensor-1">>, <<"heater-1">>, "ALARM", "", I(1))
             EXCEPT !.alarm_min_temp = I(3)],
         [LoopEntry("loop-2", <<"sensor-2">>, <<"heater-2">>, "ALARM", "", I(1))
             EXCEPT !.control_algorithm = "ON_OFF",
                    !.heater_power_limit_min = F(1, 2)] >> }

TickInit ==
    /\ cfg \in { [sensors |-> SensorTable, heaters |-> TickHeaterTable,
                  control_loops |-> t] : t \in TickTables }
    /\ sensor_cache = sensor_manager_init(cfg)
    /\ heater_state = heater_manager_init(cfg)
    /\ loop_state = control_loop_init(cfg)
    /\ num = Counts(cfg)
    /\ smp = [pc |-> "sleep"]
    /\ alarm_triggered = FALSE
    /\ ctl = TickIdle(Len(cfg.control_loops))
    /\ sup = [pc |-> "off"]
    /\ cmd = [pc |-> "idle", left |-> MaxCommands, escalated |-> FALSE]
    /\ last = NoCall

TickNext ==
    \/ SensorReadAll
    \/ CtlCheck \/ CtlLock \/ CtlLoop \/ CtlSetPower
    \/ CmdSuspendAll

TickSpec == TickInit /\ [][TickNext]_vars

\* the three contexts of main.c over two independent zones
MonitorInit ==
    /\ cfg = [sensors |-> SensorTable, heaters |-> HeaterTable,
              control_loops |-> IndependentLoops]
    /\ sensor_cache = sensor_manager_init(cfg)
    /\ heater_state = heater_manager_init(cfg)
    /\ loop_state = control_loop_init(cfg)
    /\ num = Counts(cfg)
    /\ smp = [pc |-> "sleep"]
    /\ alarm_triggered = FALSE
    /\ ctl = TickIdle(Len(cfg.control_loops))
    /\ sup = [pc |-> "scan", i |-> 1, seen |-> <<>>]
    /\ cmd = [pc |-> "off"]
    /\ last = NoCall

MonitorSpec == MonitorInit /\ [][FairNext]_vars

-----------------------------------------------------------------------------
(* start-up: lib/config/config.c and the init calls of a main() *)

MAX_SENSORS == 16
MAX_HEATERS == 16
MAX_CONTROL_LOOPS == 8
MAX_MANAGED_SENSORS == 16
MAX_MANAGED_HEATERS == 16

\* the value config_validate returns; the tables of a configuration hold the
\* entries its number_of_ fields count, or fewer when a count is oversized
config_validate(config) ==
    LET sensor_known(id) ==
            \E k \in 1..config.number_of_sensors : config.sensors[k].id = id
        heater_known(id) ==
            \E k \in 1..config.number_of_heaters : config.heaters[k].id = id
        check(loop) ==
            IF ~loop.enabled THEN 0
            ELSE IF \E j \in 1..Len(loop.sensor_ids) : ~sensor_known(loop.sensor_ids[j])
            THEN -5
            ELSE IF \E j \in 1..Len(loop.heater_ids) : ~heater_known(loop.heater_ids[j])
            THEN -6
            ELSE IF loop.follows_loop_id # "" /\ loop.follows_loop_id = loop.id
            THEN -7
            ELSE 0
        failing == { i \in 1..config.number_of_control_loops :
                       check(config.control_loops[i]) # 0 }
    IN  IF config.number_of_sensors > MAX_SENSORS THEN -2
        ELSE IF config.number_of_heaters > MAX_HEATERS THEN -3
        ELSE IF config.number_of_control_loops > MAX_CONTROL_LOOPS THEN -4
        ELSE IF failing = {} THEN 0
        ELSE check(config.control_loops[CHOOSE i \in failing :
                                           \A k \in failing : i <= k])

\* what the init functions return, the entry count they leave and the table
\* they leave, given the table they found
SensorManagerInit(config, cache) ==
    IF config.number_of_sensors > MAX_MANAGED_SENSORS
    THEN [ret |-> -2, num |-> config.number_of_sensors, table |-> cache]
    ELSE [ret |-> 0, num |-> config.number_of_sensors,
          table |-> sensor_manager_init(config)]

HeaterManagerInit(config, hs) ==
    IF config.number_of_heaters > MAX_MANAGED_HEATERS
    THEN [ret |-> -2, num |-> config.number_of_heaters, table |-> hs]
    ELSE [ret |-> 0, num |-> config.number_of_heaters,
          table |-> heater_manager_init(config)]

ControlLoopInit(config, ls) ==
    IF config.number_of_control_loops > MAX_CONTROL_LOOPS
    THEN [ret |-> -2, num |-> config.number_of_control_loops, table |-> ls]
    ELSE [ret |-> 0, num |-> config.number_of_control_loops,
          table |-> control_loop_init(config)]

\* a thermal_config_t with its three counts
Config(sensors, heaters, control_loops) ==
    [sensors |-> sensors, heaters |-> heaters, control_loops |-> control_loops,
     number_of_sensors |-> Len(sensors), number_of_heaters |-> Len(heaters),
     number_of_control_loops |-> Len(control_loops)]

\* the configuration config_load_defaults builds, as far as ids, references
\* and enabled flags go, and variations of it
StartConfigs ==
    LET zone(id, sensor, heater, follows, enabled) ==
            [LoopEntry(id, <<sensor>>, <<heater>>, "STOP", follows, I(1))
                EXCEPT !.enabled = enabled]
        one == <<SensorTable[1]>>
        sound == zone("loop-2", "sensor-1", "heater-1", "", TRUE)
        firsts == { zone("loop-1", "sensor-2", "heater-2", "", FALSE),
                    zone("loop-1", "sensor-2", "heater-2", "", TRUE),
                    zone("loop-1", "sensor-1", "heater-x", "", FALSE),
                    zone("loop-1", "sensor-1", "heater-x", "", TRUE),
                    zone("loop-1", "sensor-1", "heater-2", "loop-1", FALSE),
                    zone("loop-1", "sensor-1", "heater-2", "loop-1", TRUE),
                    zone("loop-1", "sensor-1", "heater-2", "", TRUE) }
        accepted == Config(SensorTable, HeaterTable, IndependentLoops)
    IN  { Config(one, HeaterTable, <<first, sound>>) : first \in firsts }
        \cup
        { accepted,
          [accepted EXCEPT !.control_loops[2].control_algorithm = "ON_OFF",
                           !.control_loops[2].default_state_on = FALSE],
          [accepted EXCEPT !.number_of_sensors = MAX_MANAGED_SENSORS + 1],
          [accepted EXCEPT !.number_of_heaters = MAX_MANAGED_HEATERS + 1],
          [accepted EXCEPT !.number_of_control_loops = MAX_CONTROL_LOOPS + 1] }

\* before main: the module tables are empty; a main() validates first
\* (app/src/main.c) or goes straight to the init calls (the demos);
\* sup.validated holds the value config_validate returned, once it has
StartInit ==
    /\ cfg \in StartConfigs
    /\ num = [sensors |-> 0, heaters |-> 0, loops |-> 0]
    /\ sensor_cache = <<>>
    /\ heater_state = <<>>
    /\ loop_state = <<>>
    /\ alarm_triggered = FALSE
    /\ smp = [pc |-> "off"]
    /\ ctl = [pc |-> "off"]
    /\ cmd = [pc |-> "off"]
    /\ sup \in { [pc |-> p, validated |-> <<>>] : p \in {"validate", "sensors"} }
    /\ last = NoCall

StartValidate ==
    /\ sup.pc = "validate"
    /\ \E ret \in { config_validate(cfg) } :
          /\ sup' = [pc |-> IF ret # 0 THEN "exit" ELSE "sensors", validated |-> <<ret>>]
          /\ last' = [op |-> "config_validate", ret |-> ret]
    /\ UNCHANGED <<num, smp, cfg, sensor_cache, heater_state, loop_state,
                   alarm_triggered, ctl, cmd>>

StartSensors ==
    /\ sup.pc = "sensors"
    /\ \E r \in { SensorManagerInit(cfg, sensor_cache) } :
          /\ num' = [num EXCEPT !.sensors = r.num]
          /\ sensor_cache' = r.table
          /\ sup' = [sup EXCEPT !.pc = IF r.ret # 0 THEN "exit" ELSE "heaters"]
          /\ last' = [op |-> "sensor_manager_init", ret |-> r.ret]
    /\ UNCHANGED <<smp, cfg, heater_state, loop_state, alarm_triggered, ctl, cmd>>

StartHeaters ==
    /\ sup.pc = "heaters"
    /\ \E r \in { HeaterManagerInit(cfg, heater_state) } :
          /\ num' = [num EXCEPT !.heaters = r.num]
          /\ heater_state' = r.table
          /\ sup' = [sup EXCEPT !.pc = IF r.ret # 0 THEN "exit" ELSE "loops"]
          /\ last' = [op |-> "heater_manager_init", ret |-> r.ret]
    /\ UNCHANGED <<smp, cfg, sensor_cache, loop_state, alarm_triggered, ctl, cmd>>

StartLoops ==
    /\ sup.pc = "loops"
    /\ \E r \in { ControlLoopInit(cfg, loop_state) } :
          /\ num' = [num EXCEPT !.loops = r.num]
          /\ loop_state' = r.table
          /\ sup' = [sup EXCEPT !.pc = IF r.ret # 0 THEN "exit" ELSE "run"]
          /\ last' = [op |-> "control_loop_init", ret |-> r.ret]
    /\ UNCHANGED <<smp, cfg, sensor_cache, heater_state, alarm_triggered, ctl, cmd>>

\* a caller of control_loop_enable once the engine runs
StartEnable ==
    /\ sup.pc = "run"
    /\ \E id \in LoopIdArgs, enable \in BOOLEAN :
        \E r \in { control_loop_enable(loop_state, id, enable) } :
          /\ loop_state' = r.ls
          /\ last' = [op |-> "control_loop_enable", ret |-> r.ret]
    /\ UNCHANGED <<num, smp, cfg, sensor_cache, heater_state, alarm_triggered,
                   ctl, sup, cmd>>

\* a caller of control_loop_get_status, at any time
ApiGetStatus ==
    /\ MutexFree
    /\ \E id \in LoopIdArgs :
          last' = [op |-> "get_status", ids |-> <<id>>,
                   ret |-> control_loop_get_status(loop_state, id)]
    /\ UNCHANGED <<num, smp, cfg, sensor_cache, heater_state, loop_state,
                   alarm_triggered, ctl, sup, cmd>>

\* once every init call has succeeded the sensor sweeps and the ticks run
StartNext ==
    \/ StartValidate \/ StartSensors \/ StartHeaters \/ StartLoops \/ StartEnable
    \/ ApiGetStatus
    \/ (sup.pc = "run" /\ SensorReadAll)
    \/ (sup.pc = "run" /\ ApiUpdateAll)

StartSpec == StartInit /\ [][StartNext]_vars

-----------------------------------------------------------------------------
(* the three mutexes: every public call as the sequence of its lock, unlock
   and sensor_cache accesses. A step is <<"lock", m>>, <<"unlock", m>>,
   <<"write", i, field>> (read_all stores a field of entry i) or <<"read", i>>
   (a reader loads entry i). In LockSpec the fields reading and valid of a
   sensor_cache entry hold the number of the sweep that stored them last. *)

\* sensor_manager_read_all: the mutex is held across the whole sweep
ReadAllScript ==
    << <<"lock", "sensor">>,
       <<"write", 1, "reading">>, <<"write", 1, "valid">>,
       <<"write", 2, "reading">>, <<"write", 2, "valid">>,
       <<"unlock", "sensor">> >>

\* a variant of get_average that does not take sensor_mutex
get_average_unlocked == << <<"read", 1>>, <<"read", 2>> >>

\* sensor_manager_get_average over both sensors
GetAverageScript ==
    << <<"lock", "sensor">>, <<"read", 1>>, <<"read", 2>>, <<"unlock", "sensor">> >>

\* a variant of set_power whose error returns keep heater_mutex
set_power_leaky == { << <<"lock", "heater">>, <<"unlock", "heater">> >>,
                     << <<"lock", "heater">> >> }

\* heater_manager_set_power: the returns at lines 126, 132, 143 and 194 each
\* unlock first, so its return paths are one script
SetPowerScripts == { << <<"lock", "heater">>, <<"unlock", "heater">> >> }

\* control_loop_update_all over one loop with two heaters: the loop skipped,
\* get_average failed, or the distribution's set_power calls made
UpdateAllScripts ==
    { << <<"lock", "control">>, <<"unlock", "control">> >>,
      << <<"lock", "control">> >> \o GetAverageScript \o << <<"unlock", "control">> >> }
    \cup
    { << <<"lock", "control">> >> \o GetAverageScript \o a \o b
         \o << <<"unlock", "control">> >> : a, b \in SetPowerScripts }

\* the calls of a command context: set_target, get_target, enable,
\* suspend_all, resume_all, set_gains and get_status lock and unlock
\* control_mutex on every path; set_power, get_power and emergency_stop do so
\* with heater_mutex; get_reading, is_valid and get_average with sensor_mutex
CommandScripts ==
    { << <<"lock", "control">>, <<"unlock", "control">> >>,
      << <<"lock", "sensor">>, <<"read", 1>>, <<"unlock", "sensor">> >>,
      << <<"lock", "sensor">>, <<"read", 2>>, <<"unlock", "sensor">> >>,
      GetAverageScript }
    \cup SetPowerScripts

\* mutexes held by the threads ts
HeldBy(ts) == UNION { t.holds : t \in ts }

\* number of sweeps whose read_all has returned
Completed(sampler) ==
    IF sampler.todo = <<>> THEN sampler.sweep ELSE sampler.sweep - 1

\* outcomes of thread t, idle, entering one of the calls; since is the number of
\* sweeps that had returned by then, obs what the call has loaded so far
CallBegin(t, scripts, completed) ==
    { [t EXCEPT !.todo = s, !.obs = <<>>, !.since = completed] : s \in scripts }

\* outcomes of the next step of the call thread t is in, none while the mutex
\* it waits for is held by another thread
CallStep(t, held, cache) ==
    LET step == Head(t.todo)
        rest == [t EXCEPT !.todo = Tail(@)]
    IN  CASE step[1] = "lock" ->
                IF step[2] \in held THEN {}
                ELSE { [t |-> [rest EXCEPT !.holds = @ \cup {step[2]}],
                        cache |-> cache] }
          [] step[1] = "unlock" ->
                { [t |-> [rest EXCEPT !.holds = @ \ {step[2]}], cache |-> cache] }
          [] step[1] = "write" ->
                { [t |-> rest,
                   cache |-> [cache EXCEPT ![step[2]][step[3]] = t.sweep]] }
          [] step[1] = "read" ->
                { [t |-> [rest EXCEPT !.obs = Append(@, cache[step[2]])],
                   cache |-> cache] }

LockInit ==
    /\ cfg = [sensors |-> SensorTable, heaters |-> HeaterTable,
              control_loops |-> IndependentLoops]
    /\ num = Counts(cfg)
    /\ sensor_cache = [i \in 1..Len(cfg.sensors) |->
                          [id |-> cfg.sensors[i].id, reading |-> 0, valid |-> 0]]
    /\ heater_state = heater_manager_init(cfg)
    /\ loop_state = control_loop_init(cfg)
    /\ alarm_triggered = FALSE
    /\ smp = [todo |-> <<>>, holds |-> {}, obs |-> <<>>, since |-> 0, sweep |-> 0]
    /\ ctl = smp
    /\ cmd = smp
    /\ sup = [pc |-> "off"]
    /\ last = NoCall

LockSampling ==
    /\ IF smp.todo = <<>>
       THEN /\ smp.sweep < MaxSweeps
            /\ smp' \in CallBegin([smp EXCEPT !.sweep = @ + 1], {ReadAllScript},
                                  smp.sweep)
            /\ UNCHANGED sensor_cache
       ELSE \E r \in CallStep(smp, HeldBy({ctl, cmd}), sensor_cache) :
               smp' = r.t /\ sensor_cache' = r.cache
    /\ UNCHANGED <<num, cfg, heater_state, loop_state, alarm_triggered, ctl, sup,
                   cmd, last>>

LockControl ==
    /\ IF ctl.todo = <<>>
       THEN /\ ctl' \in CallBegin(ctl, UpdateAllScripts, Completed(smp))
            /\ UNCHANGED sensor_cache
       ELSE \E r \in CallStep(ctl, HeldBy({smp, cmd}), sensor_cache) :
               ctl' = r.t /\ sensor_cache' = r.cache
    /\ UNCHANGED <<num, smp, cfg, heater_state, loop_state, alarm_triggered, sup,
                   cmd, last>>

LockCommand ==
    /\ IF cmd.todo = <<>>
       THEN /\ cmd' \in CallBegin(cmd, CommandScripts, Completed(smp))
            /\ UNCHANGED sensor_cache
       ELSE \E r \in CallStep(cmd, HeldBy({smp, ctl}), sensor_cache) :
               cmd' = r.t /\ sensor_cache' = r.cache
    /\ UNCHANGED <<num, smp, cfg, heater_state, loop_state, alarm_triggered, ctl,
                   sup, last>>

LockNext == LockSampling \/ LockControl \/ LockCommand

LockSpec == LockInit /\ [][LockNext]_vars

-----------------------------------------------------------------------------
(* the sensor registry called from one context: every call runs to its
   return; last keeps the call, what it was given, what it returned, the
   cache it found and what it left in the caller's buffer *)

SensorApiInit ==
    /\ cfg = [sensors |-> SensorTable \o <<[id |-> "sensor-3", enabled |-> FALSE]>>,
              heaters |-> << [id |-> "heater-1"] @@ HeaterKinds[3] >>,
              control_loops |-> << LoopEntry("loop-1", <<"sensor-3">>, <<"heater-1">>,
                                             "ALARM", "", I(1)) >>]
    /\ sensor_cache = sensor_manager_init(cfg)
    /\ heater_state = heater_manager_init(cfg)
    /\ loop_state = control_loop_init(cfg)
    /\ num = Counts(cfg)
    /\ smp = [pc |-> "sleep"]
    /\ alarm_triggered = FALSE
    /\ ctl = [pc |-> "off"]
    /\ sup = [pc |-> "off"]
    /\ cmd = [pc |-> "off"]
    /\ last = NoCall

ApiReadAll ==
    \E samples \in [1..Len(sensor_cache) -> SampleOutcomes] :
        /\ sensor_cache' = sensor_manager_read_all(sensor_cache, cfg, samples)
        /\ last' = [op |-> "read_all", ids |-> <<>>, arg |-> samples,
                    ret |-> ReadAllResult(cfg, samples), pre |-> sensor_cache]
        /\ UNCHANGED <<num, smp, cfg, heater_state, loop_state, alarm_triggered, ctl, sup,
                       cmd>>

ApiGetReading ==
    \E id \in {"sensor-1", "sensor-2", "sensor-3", "sensor-x"} :
      \E reading \in { [temperature_kelvin |-> I(-1), status |-> "NOT_INITIALIZED"] } :
        \E r \in { sensor_manager_get_reading(sensor_cache, id, reading) } :
            /\ last' = [op |-> "get_reading", ids |-> <<id>>, arg |-> reading,
                        ret |-> r.ret, pre |-> sensor_cache, out |-> r.reading]
            /\ UNCHANGED <<num, smp, cfg, sensor_cache, heater_state, loop_state,
                           alarm_triggered, ctl, sup, cmd>>

\* avg_temp is the caller's variable: written only when the call returns 0
ApiGetAverage ==
    \E ids \in { <<>>, <<"sensor-1">>, <<"sensor-2">>, <<"sensor-x">>,
                 <<"sensor-1", "sensor-2">>, <<"sensor-2", "sensor-x">>,
                 <<"sensor-1", "sensor-1">>, <<"sensor-3">>,
                 <<"sensor-1", "sensor-3">> } :
      \E avg_temp \in { I(-1) } :
        \E r \in { sensor_manager_get_average(sensor_cache, ids) } :
            /\ last' = [op |-> "get_average", ids |-> ids, arg |-> avg_temp,
                        ret |-> r.ret, pre |-> sensor_cache,
                        out |-> IF r.ret = 0 THEN r.avg_temp ELSE avg_temp]
            /\ UNCHANGED <<num, smp, cfg, sensor_cache, heater_state, loop_state,
                           alarm_triggered, ctl, sup, cmd>>

SensorApiNext == ApiReadAll \/ ApiGetReading \/ ApiGetAverage \/ ApiUpdateAll

SensorApiSpec == SensorApiInit /\ [][SensorApiNext]_vars

-----------------------------------------------------------------------------
(* the engine called from one context, sensor sweeps and ticks included: every
   call runs to its return; last keeps the latest engine call other than a
   tick, what it was given, what it returned, how many calls were left before
   it and the loop_state it found *)

\* engine calls the command context makes in one run
MaxCalls == 2

\* two zones on one sensor; the second zone never lets its heater fall below
\* half a watt
ApiLoops ==
    << LoopEntry("loop-1", <<"sensor-1">>, <<"heater-1">>, "ALARM",
                 "", I(1))
          @@ [valid_setpoint_range_min |-> I(3), valid_setpoint_range_max |-> I(5)],
       [LoopEntry("loop-2", <<"sensor-1">>, <<"heater-2">>, "ALARM", "", I(1))
           EXCEPT !.heater_power_limit_min = F(1, 2)]
          @@ [valid_setpoint_range_min |-> I(3), valid_setpoint_range_max |-> I(5)] >>

EngineInit ==
    /\ cfg = [sensors |-> <<[id |-> "sensor-1", enabled |-> TRUE]>>,
              heaters |-> << [id |-> "heater-1"] @@ HeaterKinds[3],
                             [id |-> "heater-2"] @@ HeaterKinds[3] >>,
              control_loops |-> ApiLoops]
    /\ sensor_cache = sensor_manager_init(cfg)
    /\ heater_state = heater_manager_init(cfg)
    /\ loop_state = control_loop_init(cfg)
    /\ num = Counts(cfg)
    /\ smp = [pc |-> "sleep"]
    /\ alarm_triggered = FALSE
    /\ ctl = [pc |-> "off"]
    /\ sup = [pc |-> "off"]
    /\ cmd = [pc |-> "idle", left |-> MaxCalls]
    /\ last = NoCall

ApiSetTarget ==
    /\ CmdReady
    /\ MutexFree
    /\ \E id \in LoopIdArgs, t \in {I(3), I(9)} :
        \E r \in { control_loop_set_target(loop_state, id, t) } :
          /\ loop_state' = r.ls
          /\ last' = [op |-> "set_target", ids |-> <<id>>, arg |-> t, ret |-> r.ret,
                      pre |-> <<cmd.left, loop_state>>]
    /\ cmd' = [cmd EXCEPT !.left = @ - 1]
    /\ UNCHANGED <<num, smp, cfg, sensor_cache, heater_state, alarm_triggered, ctl, sup>>

ApiEnable ==
    /\ CmdReady
    /\ MutexFree
    /\ \E id \in LoopIdArgs, enable \in BOOLEAN :
        \E r \in { control_loop_enable(loop_state, id, enable) } :
          /\ loop_state' = r.ls
          /\ last' = [op |-> "enable", ids |-> <<id>>, arg |-> enable, ret |-> r.ret,
                      pre |-> <<cmd.left, loop_state>>]
    /\ cmd' = [cmd EXCEPT !.left = @ - 1]
    /\ UNCHANGED <<num, smp, cfg, sensor_cache, heater_state, alarm_triggered, ctl, sup>>

ApiResumeAll ==
    /\ CmdReady
    /\ MutexFree
    /\ loop_state' = control_loop_resume_all(loop_state)
    /\ last' = [op |-> "resume_all", ids |-> <<>>, arg |-> I(0), ret |-> 0,
                pre |-> <<cmd.left, loop_state>>]
    /\ cmd' = [cmd EXCEPT !.left = @ - 1]
    /\ UNCHANGED <<num, smp, cfg, sensor_cache, heater_state, alarm_triggered, ctl, sup>>

ApiSetGains ==
    /\ CmdReady
    /\ MutexFree
    /\ \E id \in LoopIdArgs, g \in { <<I(2), I(0), I(1)>> } :
        \E r \in { control_loop_set_gains(loop_state, id, g[1], g[2], g[3]) } :
          /\ loop_state' = r.ls
          /\ last' = [op |-> "set_gains", ids |-> <<id>>, arg |-> g, ret |-> r.ret,
                      pre |-> <<cmd.left, loop_state>>]
    /\ cmd' = [cmd EXCEPT !.left = @ - 1]
    /\ UNCHANGED <<num, smp, cfg, sensor_cache, heater_state, alarm_triggered, ctl, sup>>

EngineNext ==
    \/ SensorReadAll \/ ApiUpdateAll
    \/ ApiSetTarget \/ ApiEnable \/ CmdSuspendAll \/ ApiResumeAll \/ ApiSetGains

EngineSpec == EngineInit /\ [][EngineNext]_vars

-----------------------------------------------------------------------------
(* ticks alone over following zones: the readings are valid, inside every
   alarm band and constant, and no call comes between the ticks; last keeps
   the number of the latest tick and the setpoints it found *)

\* ticks in one run
MaxTicks == 5

\* three zones, each following none or one of the zones, in every arrangement
\* config_validate accepts
FollowInit ==
    /\ cfg \in { c \in { Config(SensorTable, HeaterTable,
                                << LoopEntry("loop-1", <<"sensor-1">>, <<"heater-2">>,
                                             "ALARM", f[1], F(1, 2)),
                                   LoopEntry("loop-2", <<"sensor-2">>, <<"heater-2">>,
                                             "ALARM", f[2], F(1, 2)),
                                   LoopEntry("loop-3", <<"sensor-2">>, <<"heater-2">>,
                                             "ALARM", f[3], F(1, 2)) >>) :
                         f \in [1..3 -> {"", "loop-1", "loop-2", "loop-3"}] } :
                   config_validate(c) = 0 }
    /\ sensor_cache = sensor_manager_read_all(sensor_manager_init(cfg), cfg,
                                              [i \in 1..Len(cfg.sensors) |-> I(4)])
    /\ heater_state = heater_manager_init(cfg)
    /\ loop_state = control_loop_init(cfg)
    /\ num = Counts(cfg)
    /\ smp = [pc |-> "off"]
    /\ alarm_triggered = FALSE
    /\ ctl = [pc |-> "off"]
    /\ sup = [pc |-> "off"]
    /\ cmd = [pc |-> "off"]
    /\ last = [op |-> "none", arg |-> 0, pre |-> <<>>]

FollowTick ==
    /\ last.arg < MaxTicks
    /\ \E r \in UpdateAll(loop_state, sensor_cache, heater_state, 1, ControlPeriod) :
          /\ loop_state' = r.ls
          /\ heater_state' = r.hs
    /\ last' = [op |-> "tick", arg |-> last.arg + 1,
                pre |-> [i \in 1..Len(loop_state) |-> loop_state[i].current_setpoint]]
    /\ UNCHANGED <<num, smp, cfg, sensor_cache, alarm_triggered, ctl, sup, cmd>>

FollowSpec == FollowInit /\ [][FollowTick]_vars

-----------------------------------------------------------------------------
(* claims about the heater registry, checked under HeaterSpec *)

\* ids of the heater table
HeaterIds(hs) == { hs[j].id : j \in 1..Len(hs) }

\* the value heater_manager_get_power hands back for a configured heater
CommandedPower(id) == heater_manager_get_power(heater_state, id).power_percent

\* C4: after heater_manager_emergency_stop has returned, get_power yields 0%
\* for every heater of the table, enabled or disabled, whatever the powers
\* were before the call.
C4_EmergencyStopZeroesEveryHeater ==
    last.op = "emergency_stop" =>
        /\ last.ret = 0
        /\ \A id \in HeaterIds(heater_state) :
              heater_manager_get_power(heater_state, id) =
                  [ret |-> 0, power_percent |-> I(0)]

\* an emergency stop has returned on a table with a disabled heater and an
\* enabled one that was driven above 0% before the call
C4_Witness ==
    /\ last.op = "emergency_stop"
    /\ \E j \in 1..Len(heater_state) : ~heater_state[j].enabled
    /\ \E j \in 1..Len(heater_state) :
          heater_state[j].enabled /\ last.pre[j] # I(0)

\* C5: after heater_manager_emergency_stop has returned, an off command has
\* reached every heater: no regulator that an earlier set_power enabled is
\* still marked active.
C5_EmergencyStopTurnsRegulatorsOff ==
    last.op = "emergency_stop" =>
        \A j \in 1..Len(heater_state) : ~heater_state[j].regulator_active

\* C8: in every reachable state every heater's commanded percent lies in
\* [0, 100], and a successful set_power with a percent below 0 stores 0 and
\* with a percent above 100 stores 100.
C8_PercentWithinRange ==
    /\ \A id \in HeaterIds(heater_state) :
          FLe(I(0), CommandedPower(id)) /\ FLe(CommandedPower(id), I(100))
    /\ (last.op = "set_power" /\ last.ret = 0) =>
          /\ FLt(last.arg, I(0)) => CommandedPower(last.ids[1]) = I(0)
          /\ FGt(last.arg, I(100)) => CommandedPower(last.ids[1]) = I(100)

\* the ids of a list that name a heater of the table
KnownIds(ids) == { ids[i] : i \in 1..Len(ids) } \cap HeaterIds(heater_state)

\* C9: after a successful distribute_power(ids, n, total_watts) with
\* total_watts not above the capacity of the set, every heater named in ids
\* has the same commanded percent.
C9_UniformUtilization ==
    ( /\ last.op = "distribute_power"
      /\ last.ret = 0
      /\ FLe(last.arg, TotalMaxPower(heater_state, last.ids, 1)) ) =>
        \A a \in KnownIds(last.ids), b \in KnownIds(last.ids) :
            CommandedPower(a) = CommandedPower(b)

\* C10: after distribute_power on a set of positive capacity, each enabled
\* heater of the set is at 100 * clamp(total_watts, 0, capacity) / capacity
\* percent, capacity being the sum of max_power_w over the ids.
C10_DistributedPercent ==
    (last.op = "distribute_power" /\ last.ret = 0) =>
        LET capacity == TotalMaxPower(heater_state, last.ids, 1)
            clamped == IF FLt(last.arg, I(0)) THEN I(0)
                       ELSE IF FGt(last.arg, capacity) THEN capacity
                       ELSE last.arg
        IN  \A id \in KnownIds(last.ids) :
                heater_state[FindHeater(heater_state, id)].enabled =>
                    CommandedPower(id) = FDiv(FMul(I(100), clamped), capacity)

-----------------------------------------------------------------------------
(* claims about the control loop engine and the application *)

\* every heater of the table is commanded to 0%
AllHeatersOff ==
    \A id \in HeaterIds(heater_state) : CommandedPower(id) = I(0)

AllLoopsSuspended ==
    \A i \in 1..Len(loop_state) : loop_state[i].suspended

\* C1: once a tick has returned, a loop for which the tick raised the alarm
\* condition reports LOOP_STATUS_ALARM through control_loop_get_status, and a
\* loop for which the tick raised a sensor failure or an alarm does not report
\* OK.
C1_AlarmStatusAfterTick ==
    ctl.pc = "sleep" =>
        \A i \in 1..Len(loop_state) :
            LET status == control_loop_get_status(loop_state, loop_state[i].id)
            IN  /\ ctl.raised[i] = "alarm" => status = "ALARM"
                /\ ctl.raised[i] \in {"sensor", "alarm"} => status # "OK"

\* a loop whose error_condition is STOP measured a temperature outside its
\* alarm band in the tick that is running or has just returned
StopLoopAlarmed ==
    \E i \in 1..Len(loop_state) :
        /\ cfg.control_loops[i].error_condition = "STOP"
        /\ ctl.raised[i] = "alarm"

\* C2: under fair scheduling of the sensor thread, the control thread and the
\* supervisor, a STOP loop measuring a temperature outside its alarm band
\* leads to every heater commanded to 0% and every loop suspended.
C2_StopAlarmLeadsToShutdown ==
    StopLoopAlarmed ~> (AllHeatersOff /\ AllLoopsSuspended)

\* C3: while a tick holds the control mutex, every loop it has processed that
\* follows no other loop was given the loop's own target
\* (control_loop_get_target) as the setpoint of its PID update.
C3_SetpointIsOwnTarget ==
    ~MutexFree =>
        \A i \in 1..Len(loop_state) :
            ( /\ loop_state[i].follows_loop_id = ""
              /\ ctl.raised[i] \in {"ok", "alarm"} ) =>
                loop_state[i].current_setpoint =
                    control_loop_get_target(loop_state, loop_state[i].id).target_kelvin

\* C6: once the suspend_all of an emergency_stop / suspend_all sequence has
\* returned, and for as long as every loop stays suspended, every heater is
\* commanded to 0%, whatever the control thread was doing meanwhile.
C6_HeatersOffWhileSuspended ==
    (cmd.escalated /\ AllLoopsSuspended) => AllHeatersOff

\* commanded powers of the heaters loop l drives
LoopHeaterPowers(hs, l) ==
    [k \in 1..Len(l.heater_ids) |->
        heater_manager_get_power(hs, l.heater_ids[k]).power_percent]

\* C7: no step of control_loop_update_all changes anything of a loop that is
\* disabled or suspended: its PID state, its resolved setpoint, its status
\* and the commanded power of its heaters stay as they were.
C7_SkippedLoopUntouched ==
    [][ ctl' # ctl =>
          \A j \in 1..Len(loop_state) :
              (~loop_state[j].enabled \/ loop_state[j].suspended) =>
                  /\ loop_state'[j] = loop_state[j]
                  /\ LoopHeaterPowers(heater_state', loop_state[j]) =
                         LoopHeaterPowers(heater_state, loop_state[j]) ]_vars

\* heater id is driven by a loop that update_all does process
DrivenByProcessedLoop(id) ==
    \E k \in 1..Len(loop_state) :
        /\ loop_state[k].enabled /\ ~loop_state[k].suspended
        /\ \E m \in 1..Len(loop_state[k].heater_ids) :
              loop_state[k].heater_ids[m] = id

\* C7 (amended): no step of control_loop_update_all changes the PID state, the
\* resolved setpoint or the status of a loop that is disabled or suspended,
\* nor the commanded power of any of its heaters that no processed loop also
\* drives.
C7_SkippedLoopUntouchedUnlessShared ==
    [][ ctl' # ctl =>
          \A j \in 1..Len(loop_state) :
              (~loop_state[j].enabled \/ loop_state[j].suspended) =>
                  /\ loop_state'[j] = loop_state[j]
                  /\ \A m \in 1..Len(loop_state[j].heater_ids) :
                        LET id == loop_state[j].heater_ids[m]
                        IN  ~DrivenByProcessedLoop(id) =>
                              heater_manager_get_power(heater_state', id) =
                              heater_manager_get_power(heater_state, id) ]_vars

\* a tick has passed over a suspended loop whose integrator is not zero and
\* whose heater is still commanded above 0%
C7_Witness ==
    \E j \in 1..Len(loop_state) :
        /\ loop_state[j].suspended
        /\ ctl.pc = "loop" /\ ctl.i > j
        /\ loop_state[j].pid.integral # I(0)
        /\ \E m \in 1..Len(loop_state[j].heater_ids) :
              CommandedPower(loop_state[j].heater_ids[m]) # I(0)


\* C11: from the step of a tick at which sensor_manager_get_average fails for
\* a loop to the return of that tick, the loop's status is SENSOR_ERROR, the
\* failure is counted in the value the tick returns, and no step of the tick
\* changes the loop's PID state, its resolved setpoint or the commanded power
\* of its heaters.
C11_SensorFailureSkipsLoop ==
    [][ ctl' # ctl =>
          \A j \in 1..Len(loop_state) :
              ctl'.raised[j] = "sensor" =>
                  /\ loop_state'[j].status = "SENSOR_ERROR"
                  /\ ctl.raised[j] # "sensor" => ctl'.errors = ctl.errors + 1
                  /\ ctl'.pc = "sleep" => ctl'.ret < 0
                  /\ loop_state'[j].pid = loop_state[j].pid
                  /\ loop_state'[j].current_setpoint = loop_state[j].current_setpoint
                  /\ LoopHeaterPowers(heater_state', loop_state[j]) =
                         LoopHeaterPowers(heater_state, loop_state[j]) ]_vars

\* C11 (amended): as C11, for the commanded power of every heater of the loop
\* that no other processed loop also drives.
C11_SensorFailureSkipsLoopUnlessShared ==
    [][ ctl' # ctl =>
          \A j \in 1..Len(loop_state) :
              ctl'.raised[j] = "sensor" =>
                  /\ loop_state'[j].status = "SENSOR_ERROR"
                  /\ ctl.raised[j] # "sensor" => ctl'.errors = ctl.errors + 1
                  /\ ctl'.pc = "sleep" => ctl'.ret < 0
                  /\ loop_state'[j].pid = loop_state[j].pid
                  /\ loop_state'[j].current_setpoint = loop_state[j].current_setpoint
                  /\ \A m \in 1..Len(loop_state[j].heater_ids) :
                        LET id == loop_state[j].heater_ids[m]
                        IN  (\A k \in 1..Len(loop_state) :
                                (k # j /\ ~LoopSkipped(loop_state[k])) =>
                                    \A n \in 1..Len(loop_state[k].heater_ids) :
                                        loop_state[k].heater_ids[n] # id) =>
                              heater_manager_get_power(heater_state', id) =
                              heater_manager_get_power(heater_state, id) ]_vars

\* a tick has returned after a get_average failure on a loop whose integrator
\* is not zero and whose heater is still commanded above 0%
C11_Witness ==
    \E j \in 1..Len(loop_state) :
        /\ ctl.pc = "sleep" /\ ctl.raised[j] = "sensor" /\ ctl.ret < 0
        /\ loop_state[j].status = "SENSOR_ERROR"
        /\ loop_state[j].pid.integral # I(0)
        /\ \E m \in 1..Len(loop_state[j].heater_ids) :
              CommandedPower(loop_state[j].heater_ids[m]) # I(0)


\* C12: when a tick returns, every enabled, non-suspended loop has been
\* processed in it, whatever the loops before it raised, and the value
\* returned is minus the number of conditions raised in the tick: one per
\* sensor failure, one per alarm and one per failed heater distribution.
C12_TickRunsEveryLoopAndCounts ==
    [][ (ctl.pc # "sleep" /\ ctl'.pc = "sleep") =>
          LET n == Len(loop_state)
              conditions ==
                  { <<j, "sensor">> : j \in { k \in 1..n : ctl'.raised[k] = "sensor" } }
                  \cup
                  { <<j, "alarm">> : j \in { k \in 1..n : ctl'.raised[k] = "alarm" } }
                  \cup
                  { <<j, "heaters">> : j \in { k \in 1..n : ctl'.dist[k] # 0 } }
          IN  /\ \A j \in 1..n :
                    ~LoopSkipped(loop_state'[j]) => ctl'.raised[j] # "none"
              /\ ctl'.ret = -Cardinality(conditions)
              /\ ctl'.ret = 0 <=> conditions = {} ]_vars

\* a tick has returned in which the first loop raised a condition, a later
\* loop was processed all the same, and two conditions were counted
C12_Witness ==
    /\ ctl.pc = "sleep" /\ ctl.ret = -2
    /\ ctl.raised[1] \in {"sensor", "alarm"}
    /\ \E j \in 2..Len(loop_state) : ctl.raised[j] = "ok"
    /\ \E j \in 1..Len(loop_state) : ctl.dist[j] # 0

\* C13: a tick in which a heater_manager_set_power call returned a failure
\* returns a nonzero value.
C13_SetPowerFailureCounted ==
    (ctl.pc = "sleep" /\ ctl.set_power_failed) => ctl.ret # 0

\* C14: the tick step that processes a loop whose follows_loop_id names a
\* loop of the table hands the PID update the followed loop's resolved
\* setpoint multiplied by follows_scalar: that product becomes the loop's
\* resolved setpoint, and the error the update keeps is that product minus
\* the measured average.
C14_FollowerSetpoint ==
    [][ (ctl.pc = "loop" /\ ctl' # ctl) =>
          LET i == ctl.i
              a == FindLoop(loop_state, loop_state[i].follows_loop_id)
              setpoint == FMul(loop_state[a].current_setpoint,
                               loop_state[i].follows_scalar)
              avg == sensor_manager_get_average(sensor_cache,
                                                loop_state[i].sensor_ids)
          IN  ( /\ loop_state[i].follows_loop_id # "" /\ a > 0
                /\ ctl'.raised[i] \in {"ok", "alarm"} ) =>
                  /\ loop_state'[i].current_setpoint = setpoint
                  /\ loop_state'[i].pid.prev_error = FSub(setpoint, avg.avg_temp) ]_vars

\* a following loop has been processed with a setpoint that is half the
\* followed loop's and differs from its own target
C14_Witness ==
    \E i \in 1..Len(loop_state) :
        LET a == FindLoop(loop_state, loop_state[i].follows_loop_id)
        IN  /\ loop_state[i].follows_loop_id # "" /\ a > 0
            /\ ctl.raised[i] \in {"ok", "alarm"}
            /\ loop_state[i].follows_scalar = F(1, 2)
            /\ loop_state[i].current_setpoint =
                   FMul(loop_state[a].current_setpoint, F(1, 2))
            /\ loop_state[i].current_setpoint # loop_state[i].target_temp_kelvin


\* C16: when the last set_power call of a distribute_power returns after a
\* heater_manager_emergency_stop has returned, the heaters of the
\* distribution are either all commanded to 0% or all commanded to the
\* percent the distribution computed for them.
C16_DistributeAtomicWithEmergencyStop ==
    [][ ( /\ ctl.pc = "set_power" /\ Len(ctl.calls) = 1 /\ ctl' # ctl
          /\ cmd.pc = "stopped" ) =>
          \/ \A k \in 1..Len(ctl.plan) :
                heater_manager_get_power(heater_state', ctl.plan[k][1]).power_percent
                    = I(0)
          \/ \A k \in 1..Len(ctl.plan) :
                heater_manager_get_power(heater_state', ctl.plan[k][1]).power_percent
                    = ClampPercent(ctl.plan[k][2]) ]_vars


C19_ValidatedLoopsResolve ==
    sup.validated = <<0>> =>
        /\ \A i \in 1..cfg.number_of_control_loops :
              LET loop == cfg.control_loops[i]
              IN  /\ \A j \in 1..Len(loop.sensor_ids) :
                        \E k \in 1..cfg.number_of_sensors :
                            cfg.sensors[k].id = loop.sensor_ids[j]
                  /\ \A j \in 1..Len(loop.heater_ids) :
                        \E k \in 1..cfg.number_of_heaters :
                            cfg.heaters[k].id = loop.heater_ids[j]
                  /\ loop.follows_loop_id # loop.id
        /\ \A i \in 1..Len(loop_state) :
              loop_state[i].enabled =>
                  /\ \A j \in 1..Len(loop_state[i].sensor_ids) :
                        FindSensor(sensor_cache, loop_state[i].sensor_ids[j]) > 0
                  /\ \A j \in 1..Len(loop_state[i].heater_ids) :
                        FindHeater(heater_state, loop_state[i].heater_ids[j]) > 0

\* C20: once an init function has rejected a configuration as oversized
\* (returned -2), the entry count of its module does not exceed the size of
\* the module's static table, so no later sweep over the entries leaves it.
C20_RejectedInitLeavesNoEntries ==
    /\ (last.op = "sensor_manager_init" /\ last.ret = -2) =>
           num.sensors <= MAX_MANAGED_SENSORS
    /\ (last.op = "heater_manager_init" /\ last.ret = -2) =>
           num.heaters <= MAX_MANAGED_HEATERS
    /\ (last.op = "control_loop_init" /\ last.ret = -2) =>
           num.loops <= MAX_CONTROL_LOOPS


\* C15: in every interleaving of read_all, update_all and the calls of a
\* command context, a thread that waits for control_mutex holds neither
\* sensor_mutex nor heater_mutex, a thread whose call has returned holds no
\* mutex, and while any call is in progress some call in progress can take
\* its next step, so every call runs to its return.
C15_NoDeadlock ==
    LET threads == <<smp, ctl, cmd>>
        others(k) == { threads[j] : j \in (1..3) \ {k} }
        waiting(k) == /\ threads[k].todo # <<>>
                      /\ Head(threads[k].todo)[1] = "lock"
                      /\ Head(threads[k].todo)[2] \in HeldBy(others(k))
    IN  /\ \A k \in 1..3 :
              /\ threads[k].todo = <<>> => threads[k].holds = {}
              /\ ( /\ threads[k].todo # <<>>
                   /\ Head(threads[k].todo) = <<"lock", "control">> ) =>
                     threads[k].holds = {}
              /\ HeldBy(others(k)) \cap threads[k].holds = {}
        /\ (\E k \in 1..3 : threads[k].todo # <<>>) =>
              (\E k \in 1..3 : threads[k].todo # <<>> /\ ~waiting(k))

\* the control thread is inside get_average, holding control_mutex and
\* sensor_mutex, while the sampling thread waits for sensor_mutex and the
\* command context waits for control_mutex
C15_Witness ==
    /\ ctl.holds = {"control", "sensor"}
    /\ smp.todo # <<>> /\ Head(smp.todo) = <<"lock", "sensor">>
    /\ cmd.todo # <<>> /\ Head(cmd.todo) = <<"lock", "control">>

\* C17: whatever a reader has loaded from sensor_cache in one call, every
\* entry has its reading and its valid flag from the same sweep, all entries
\* of the call are from the same sweep, and none is from a sweep older than
\* the last one whose read_all had returned when the call began.
C17_ReadersSeeWholeSweeps ==
    \A t \in {ctl, cmd} :
        \A j \in 1..Len(t.obs) :
            /\ t.obs[j].reading = t.obs[j].valid
            /\ t.obs[j].reading = t.obs[1].reading
            /\ t.obs[j].reading >= t.since

\* a get_average that began while the second sweep was being stored, after
\* the first had returned, has loaded both entries as the second sweep left
\* them
C17_Witness ==
    \E t \in {ctl, cmd} :
        /\ Len(t.obs) = 2 /\ t.since = 1
        /\ t.obs[1].reading = 2 /\ t.obs[2].valid = 2


\* C21: a heater_manager_set_power call returns -2 exactly for an id no
\* heater carries and -3 exactly for a heater that is disabled; in both cases
\* heater_state is left as it was; in every other case the clamped percent is
\* stored for the named heater and no other heater changes.
C21_SetPowerLookupFailures ==
    [][ last'.op = "set_power" =>
          LET idx == FindHeater(heater_state, last'.ids[1])
          IN  /\ last'.ret = -2 <=> idx = 0
              /\ last'.ret = -3 <=> (idx > 0 /\ ~heater_state[idx].enabled)
              /\ last'.ret \in {-2, -3} => heater_state' = heater_state
              /\ (idx > 0 /\ last'.ret \notin {-2, -3}) =>
                    /\ heater_state'[idx].power_percent = ClampPercent(last'.arg)
                    /\ \A j \in 1..Len(heater_state) :
                          j # idx => heater_state'[j] = heater_state[j] ]_vars

\* set_power has just failed on a disabled heater while the other heater of
\* the table is commanded above 0%
C21_Witness ==
    /\ last.op = "set_power" /\ last.ret = -3
    /\ \E j \in 1..Len(heater_state) : heater_state[j].power_percent # I(0)

\* C22: a heater_manager_distribute_power call over a list of ids returns -2
\* exactly when the summed max_power_watts of the heaters the ids name is not
\* positive, and a call that returns a failure leaves every commanded power
\* as it was.
C22_DistributeNoCapacity ==
    [][ last'.op = "distribute_power" =>
          /\ last'.ret = -2 <=>
                FLe(TotalMaxPower(heater_state, last'.ids, 1), I(0))
          /\ last'.ret # 0 => heater_state' = heater_state ]_vars

\* distribute_power has just failed for want of capacity while a heater of
\* the table is commanded above 0%
C22_Witness ==
    /\ last.op = "distribute_power" /\ last.ret = -2
    /\ \E j \in 1..Len(heater_state) : heater_state[j].power_percent # I(0)

-----------------------------------------------------------------------------
(* claims about the sensor registry, checked under SensorApiSpec *)

\* C23: after a sensor_manager_read_all sweep every enabled sensor whose read
\* succeeded is valid with status OK and the temperature just read; every
\* enabled sensor whose read failed is invalid with status READ_ERROR, and
\* get_reading, is_valid and get_average do not serve its stale temperature;
\* the magnitude of the value read_all returned is the number of reads that
\* failed in the sweep.
C23_ReadAllSweep ==
    last.op = "read_all" =>
        LET enabled == { i \in 1..Len(cfg.sensors) : cfg.sensors[i].enabled }
            failed == { i \in enabled : last.arg[i] = "fail" }
            buffer == [temperature_kelvin |-> I(-1), status |-> "NOT_INITIALIZED"]
        IN  /\ \A i \in enabled \ failed :
                  /\ sensor_cache[i].valid
                  /\ sensor_cache[i].reading =
                        [temperature_kelvin |-> last.arg[i], status |-> "OK"]
                  /\ sensor_manager_is_valid(sensor_cache, cfg.sensors[i].id)
            /\ \A i \in failed :
                  LET id == cfg.sensors[i].id
                  IN  /\ ~sensor_cache[i].valid
                      /\ sensor_cache[i].reading.status = "READ_ERROR"
                      /\ ~sensor_manager_is_valid(sensor_cache, id)
                      /\ sensor_manager_get_reading(sensor_cache, id, buffer) =
                            [ret |-> -3, reading |-> buffer]
                      /\ sensor_manager_get_average(sensor_cache, <<id>>).ret = -2
                      /\ \A j \in enabled \ failed :
                            sensor_manager_get_average(
                                sensor_cache, <<id, cfg.sensors[j].id>>).avg_temp
                              = last.arg[j]
            /\ (IF last.ret < 0 THEN -last.ret ELSE last.ret) = Cardinality(failed)

\* a sweep in which a sensor that held a valid temperature failed while
\* another one was read
C23_Witness ==
    /\ last.op = "read_all"
    /\ \E i, j \in 1..Len(sensor_cache) :
          /\ last.pre[i].valid
          /\ last.pre[i].reading.temperature_kelvin # I(0)
          /\ last.arg[i] = "fail"
          /\ last.arg[j] # "fail"
          /\ cfg.sensors[j].enabled


\* C24: sensor_manager_get_average yields the arithmetic mean of the cached
\* temperatures of those named sensors that are valid at the call: a name that
\* is unknown or whose entry is invalid is skipped and not counted as zero,
\* and when no named sensor is valid the call fails with -2 and the caller's
\* variable keeps the value it had.
C24_AverageOverValid ==
    (last.op = "get_average" /\ last.ids # <<>>) =>
        LET named == { k \in 1..Len(last.ids) :
                         \E j \in 1..Len(sensor_cache) :
                            /\ sensor_cache[j].id = last.ids[k]
                            /\ sensor_cache[j].valid }
            T(k) == LET j == CHOOSE j \in 1..Len(sensor_cache) :
                                sensor_cache[j].id = last.ids[k]
                    IN  sensor_cache[j].reading.temperature_kelvin
        IN  /\ named = {} => (last.ret = -2 /\ last.out = last.arg)
            /\ named # {} => last.ret = 0
            /\ Cardinality(named) = 1 => \A k \in named : last.out = T(k)
            /\ Cardinality(named) = 2 =>
                  last.out = FDiv(FAdd(T(1), T(2)), I(2))

\* the average of one valid and one invalid sensor has been asked
C24_Witness ==
    /\ last.op = "get_average"
    /\ last.ret = 0
    /\ Len(last.ids) = 2
    /\ \E k \in 1..2 : \E j \in 1..Len(sensor_cache) :
          /\ sensor_cache[j].id = last.ids[k]
          /\ ~sensor_cache[j].valid
          /\ sensor_cache[j].reading.temperature_kelvin # I(0)

\* C25: sensor_manager_get_reading fails with -2 for an id no sensor carries
\* and with -3 for a sensor whose cached entry is invalid, leaves the
\* caller's reading as it was in both cases, and otherwise returns 0 with the
\* cached reading copied to the caller.
C25_GetReadingFailureKinds ==
    last.op = "get_reading" =>
        LET known == { j \in 1..Len(sensor_cache) : sensor_cache[j].id = last.ids[1] }
        IN  /\ last.ret = -2 <=> known = {}
            /\ last.ret = -3 <=> \E j \in known : ~sensor_cache[j].valid
            /\ last.ret \in {-2, -3} => last.out = last.arg
            /\ last.ret \notin {-2, -3} =>
                  /\ last.ret = 0
                  /\ \A j \in known : last.out = sensor_cache[j].reading

\* the reading of a sensor whose latest read failed after an earlier one
\* had succeeded has been asked
C25_Witness ==
    /\ last.op = "get_reading"
    /\ last.ret = -3
    /\ \E j \in 1..Len(sensor_cache) :
          /\ sensor_cache[j].id = last.ids[1]
          /\ sensor_cache[j].reading.status = "READ_ERROR"
          /\ sensor_cache[j].reading.temperature_kelvin # I(0)

-----------------------------------------------------------------------------
(* claims about the PID controller and the engine's calls, checked under
   EngineSpec *)

\* C26: in every reachable state, also right after control_loop_init,
\* coo_pid_reset, control_loop_enable and control_loop_resume_all, the
\* integral of every loop's PID controller lies within
\* [integral_min, integral_max].
C26_IntegralWithinLimits ==
    \A i \in 1..Len(loop_state) :
        /\ FLe(loop_state[i].pid.integral_min, loop_state[i].pid.integral)
        /\ FLe(loop_state[i].pid.integral, loop_state[i].pid.integral_max)


\* C27: whatever updates a controller has been through, the coo_pid_update
\* with dt > 0 that follows a coo_pid_reset returns the same output and leaves
\* the same integral and previous error as the first update of a controller
\* freshly initialised with the same gains and limits, for the same setpoint,
\* measurement and dt.
C27_ResetEquivalence ==
    \A i \in 1..Len(loop_state) :
        LET p == loop_state[i].pid
            fresh == coo_pid_init(p.kp, p.ki, p.kd, p.output_min, p.output_max)
        IN  \A in \in { <<I(3), I(2), F(1, 2)>>, <<I(4), I(6), I(1)>> } :
                coo_pid_update(coo_pid_reset(p), in[1], in[2], in[3])
                  = coo_pid_update(fresh, in[1], in[2], in[3])

\* a controller with a derivative gain that has accumulated an integral and
\* a previous error
C27_Witness ==
    \E i \in 1..Len(loop_state) :
        /\ loop_state[i].pid.kd # I(0)
        /\ loop_state[i].pid.integral # I(0)
        /\ loop_state[i].pid.prev_error # I(0)
        /\ coo_pid_update(loop_state[i].pid, I(3), I(2), F(1, 2))
             # coo_pid_update(coo_pid_reset(loop_state[i].pid), I(3), I(2), F(1, 2))


\* C28: control_loop_enable(loop, true) zeroes the integral and the previous
\* error of that loop's PID controller, and control_loop_resume_all clears
\* the suspended flag and zeroes the integral and the previous error of every
\* loop, so that the next update of such a loop is the first update of a
\* fresh controller with the loop's gains and limits.
C28_EnableAndResumeResetPid ==
    [][ LET reset == IF last'.op = "resume_all" THEN 1..Len(loop_state)
                     ELSE IF last'.op = "enable" /\ last'.arg = TRUE
                     THEN { i \in 1..Len(loop_state) :
                              loop_state[i].id = last'.ids[1] }
                     ELSE {}
        IN  last' # last =>
              /\ \A i \in reset :
                    LET p == loop_state'[i].pid
                    IN  /\ p.integral = I(0)
                        /\ p.prev_error = I(0)
                        /\ \A measured \in {I(2), I(6)} :
                              coo_pid_update(p, loop_state'[i].current_setpoint,
                                             measured, ControlPeriod)
                                = coo_pid_update(
                                      coo_pid_init(p.kp, p.ki, p.kd,
                                                   p.output_min, p.output_max),
                                      loop_state'[i].current_setpoint,
                                      measured, ControlPeriod)
                        /\ last'.op = "enable" => loop_state'[i].enabled
              /\ last'.op = "resume_all" =>
                    \A i \in 1..Len(loop_state) : ~loop_state'[i].suspended ]_vars

\* a loop that had accumulated an integral and a previous error was disabled
\* and has been enabled again, or was suspended and has been resumed
C28_Witness ==
    /\ last.op \in {"enable", "resume_all"}
    /\ \E i \in 1..Len(loop_state) :
        /\ last.pre[2][i].pid.integral # I(0)
        /\ last.pre[2][i].pid.prev_error # I(0)
        /\ \/ /\ last.op = "enable"
              /\ last.arg = TRUE
              /\ last.ids[1] = loop_state[i].id
              /\ ~last.pre[2][i].enabled
           \/ /\ last.op = "resume_all"
              /\ last.pre[2][i].suspended


\* C29: control_loop_set_gains stores kp, ki and kd in the named loop's PID
\* controller and changes nothing else: the controller's integral, previous
\* error and limits, the loop's target, setpoint, flags and status, every
\* other loop, the heaters and the sensor cache are as before; for an id no
\* loop carries it fails and changes nothing.
C29_SetGainsFrame ==
    [][ (last' # last /\ last'.op = "set_gains") =>
          LET named == { i \in 1..Len(loop_state) : loop_state[i].id = last'.ids[1] }
          IN  /\ Len(loop_state') = Len(loop_state)
              /\ heater_state' = heater_state
              /\ sensor_cache' = sensor_cache
              /\ named = {} => (last'.ret # 0 /\ loop_state' = loop_state)
              /\ named # {} => last'.ret = 0
              /\ \A i \in 1..Len(loop_state) :
                    IF i \in named
                    THEN /\ loop_state'[i].pid.kp = last'.arg[1]
                         /\ loop_state'[i].pid.ki = last'.arg[2]
                         /\ loop_state'[i].pid.kd = last'.arg[3]
                         /\ [loop_state'[i] EXCEPT
                               !.pid.kp = loop_state[i].pid.kp,
                               !.pid.ki = loop_state[i].pid.ki,
                               !.pid.kd = loop_state[i].pid.kd] = loop_state[i]
                    ELSE loop_state'[i] = loop_state[i] ]_vars

\* the gains of a loop whose controller had accumulated an integral and a
\* previous error have been changed
C29_Witness ==
    /\ last.op = "set_gains"
    /\ last.ret = 0
    /\ \E i \in 1..Len(loop_state) :
          /\ loop_state[i].id = last.ids[1]
          /\ last.pre[2][i].pid.integral # I(0)
          /\ last.pre[2][i].pid.prev_error # I(0)
          /\ last.pre[2][i].pid.kp # last.arg[1]
          /\ loop_state[i].pid.kp = last.arg[1]


\* C30: control_loop_set_target on a configured loop succeeds for any value,
\* inside the loop's valid_setpoint_range or not, and from then on, through
\* sensor sweeps and ticks, control_loop_get_target on that loop succeeds and
\* yields that value; on an id no loop carries both calls fail and the
\* set_target call leaves every loop as it was.
C30_TargetRoundTrip ==
    /\ [](last.op = "set_target" =>
            LET got == control_loop_get_target(loop_state, last.ids[1])
            IN  IF \E i \in 1..Len(cfg.control_loops) :
                      cfg.control_loops[i].id = last.ids[1]
                THEN /\ last.ret = 0
                     /\ got = [ret |-> 0, target_kelvin |-> last.arg]
                ELSE /\ last.ret # 0
                     /\ got.ret # 0)
    /\ [][ (last' # last /\ last'.op = "set_target" /\ last'.ret # 0) =>
              loop_state' = loop_state ]_vars

\* a target outside the loop's valid_setpoint_range has been set and a tick
\* has since updated the loop's controller
C30_Witness ==
    /\ last.op = "set_target"
    /\ last.ret = 0
    /\ \E i \in 1..Len(loop_state) :
          /\ loop_state[i].id = last.ids[1]
          /\ FGt(last.arg, cfg.control_loops[i].valid_setpoint_range_max)
          /\ loop_state[i].pid # last.pre[2][i].pid
          /\ loop_state[i].target_temp_kelvin # last.pre[2][i].target_temp_kelvin


-----------------------------------------------------------------------------
(* claims settled last *)

\* C31: once control_loop_init has returned 0, every configured loop has
\* enabled = (enabled and default_state_on of its configuration), is not
\* suspended, has status OK, has target and setpoint equal to
\* default_target_temperature, and has a PID controller with the configured
\* gains, zero integral and previous error, and output limits
\* [heater_power_limit_min, heater_power_limit_max].
C31_InitState ==
    (last.op = "control_loop_init" /\ last.ret = 0) =>
        \A i \in 1..cfg.number_of_control_loops :
            LET c == cfg.control_loops[i]
                l == loop_state[i]
            IN  /\ l.id = c.id
                /\ l.enabled = (c.enabled /\ c.default_state_on)
                /\ ~l.suspended
                /\ l.status = "OK"
                /\ l.target_temp_kelvin = c.default_target_temperature
                /\ l.current_setpoint = c.default_target_temperature
                /\ l.pid.kp = c.p_gain
                /\ l.pid.ki = c.i_gain
                /\ l.pid.kd = c.d_gain
                /\ l.pid.integral = I(0)
                /\ l.pid.prev_error = I(0)
                /\ l.pid.output_min = c.heater_power_limit_min
                /\ l.pid.output_max = c.heater_power_limit_max


\* C32: the wattage control_loop_update_all hands to
\* heater_manager_distribute_power for a loop it processes lies within that
\* loop's [heater_power_limit_min, heater_power_limit_max], for the control
\* period and also for a dt that is zero or negative.
C32_OutputWithinPowerLimits ==
    ctl.pc = "loop" =>
        LET l == loop_state[ctl.i]
            avg == sensor_manager_get_average(sensor_cache, l.sensor_ids)
        IN  (~LoopSkipped(l) /\ avg.ret = 0) =>
                \A dt \in {ControlPeriod, I(0), I(-1)} :
                    LET output == coo_pid_update(l.pid, ResolveSetpoint(loop_state, ctl.i),
                                                 avg.avg_temp, dt).output
                    IN  /\ FLe(l.power_limit_min, output)
                        /\ FLe(output, l.power_limit_max)


\* C33: control_loop_get_status answers LOOP_STATUS_NOT_INITIALIZED for an id
\* no configured loop carries and for any id while control_loop_init has not
\* run, answers the status the loop has at the call for a configured loop,
\* and changes no state.
C33_GetStatus ==
    [][ (last' # last /\ last'.op = "get_status") =>
          LET id == last'.ids[1]
              named == { i \in 1..Len(loop_state) : loop_state[i].id = id }
          IN  /\ sup.pc \in {"validate", "sensors", "heaters", "loops"} =>
                    last'.ret = "NOT_INITIALIZED"
              /\ (\A i \in 1..Len(cfg.control_loops) : cfg.control_loops[i].id # id) =>
                    last'.ret = "NOT_INITIALIZED"
              /\ \A i \in named : last'.ret = loop_state[i].status
              /\ UNCHANGED <<num, smp, cfg, sensor_cache, heater_state, loop_state,
                             alarm_triggered, ctl, sup, cmd>> ]_vars

\* the status of a loop that the latest tick left in SENSOR_ERROR has been asked
C33_Witness ==
    /\ last.op = "get_status"
    /\ last.ret = "SENSOR_ERROR"
    /\ \E i \in 1..Len(loop_state) :
          loop_state[i].id = last.ids[1] /\ loop_state[i].status = "SENSOR_ERROR"


\* C34: when the tick processes a loop whose measured temperature is outside
\* the alarm band it counts the alarm as an error and, in the same tick,
\* resolves the loop's setpoint, runs its PID update and hands the PID output
\* to the distribution over the loop's heaters, whose set_power calls it goes
\* on to make: the alarm neither skips the heater write nor forces 0%.
C34_AlarmTickStillDrivesHeaters ==
    [][ (ctl.pc = "loop" /\ ctl'.raised[ctl.i] = "alarm") =>
          LET i == ctl.i
              l == loop_state[i]
              avg == sensor_manager_get_average(sensor_cache, l.sensor_ids)
              followed == { j \in 1..Len(loop_state) :
                              loop_state[j].id = l.follows_loop_id }
              setpoint == IF l.follows_loop_id # "" /\ followed # {}
                          THEN FMul(loop_state[CHOOSE j \in followed :
                                                 \A k \in followed : j <= k]
                                       .current_setpoint,
                                    l.follows_scalar)
                          ELSE l.current_setpoint
              upd == coo_pid_update(l.pid, setpoint, avg.avg_temp, ControlPeriod)
              plan == DistributePlan(heater_state, l.heater_ids, upd.output)
          IN  /\ ctl'.errors >= ctl.errors + 1
              /\ loop_state'[i].current_setpoint = setpoint
              /\ loop_state'[i].pid = upd.pid
              /\ ctl'.dist[i] = plan.ret
              /\ plan.calls # <<>> =>
                    (ctl'.pc = "set_power" /\ ctl'.calls = plan.calls) ]_vars

\* a tick that raised the alarm for a loop has left that loop's heater at a
\* power above 0%
C34_Witness ==
    /\ ctl.pc = "sleep"
    /\ \E i \in 1..Len(loop_state) :
          /\ ctl.raised[i] = "alarm"
          /\ \E h \in 1..Len(heater_state) :
                /\ heater_state[h].id = loop_state[i].heater_ids[1]
                /\ FGt(heater_state[h].power_percent, I(0))
          /\ \A k \in 1..Len(loop_state) :
                k # i => loop_state[k].heater_ids # loop_state[i].heater_ids


\* C36: a heater_manager_set_power call that returns a failure code leaves
\* the commanded power of every heater, the value heater_manager_get_power
\* yields, as it was before the call, whichever failure it returns.
C36_FailedSetPowerKeepsPower ==
    (last.op = "set_power" /\ last.ret # 0) =>
        \A j \in 1..Len(heater_state) :
            heater_manager_get_power(heater_state, heater_state[j].id).power_percent
              = last.pre[j]


\* C35: once heater_manager_init has returned 0 every heater is commanded to
\* 0% and no regulator is enabled, also when the module had been running
\* before the call.
C35_InitLeavesHeatersOff ==
    (last.op = "init" /\ last.ret = 0) =>
        \A j \in 1..Len(heater_state) :
            /\ heater_state[j].power_percent = I(0)
            /\ ~heater_state[j].regulator_active
            /\ ~heater_state[j].regulator_on


\* C37: the status of a loop is not latched: whatever status earlier ticks
\* left, SENSOR_ERROR or ALARM included, once a tick has processed the loop
\* (enabled, not suspended) with its sensor average available and inside the
\* alarm band, the loop's status is OK, with no reset or acknowledge call.
C37_StatusNotLatched ==
    [][ ( /\ ctl.pc \in {"loop", "set_power"}
          /\ (ctl'.pc = "sleep" \/ ctl'.i # ctl.i)
          /\ ctl'.raised[ctl.i] = "ok" ) =>
            loop_state'[ctl.i].status = "OK" ]_vars

\* a tick finds in band, and is writing the heaters of, a loop whose status
\* is still the SENSOR_ERROR an earlier tick left
C37_Witness ==
    /\ ctl.pc = "set_power"
    /\ ctl.raised[ctl.i] = "ok"
    /\ Len(ctl.calls) = 1
    /\ loop_state[ctl.i].status = "SENSOR_ERROR"


C39_DisableOnlyClearsFlag ==
    [][ /\ (last' # last /\ last'.op = "enable" /\ last'.arg = FALSE) =>
              /\ heater_state' = heater_state
              /\ \A i \in 1..Len(loop_state) :
                    loop_state'[i] =
                        IF loop_state[i].id = last'.ids[1]
                        THEN [loop_state[i] EXCEPT !.enabled = FALSE]
                        ELSE loop_state[i]
        /\ (last' = last /\ cmd' = cmd) =>
              \A i \in 1..Len(loop_state) :
                 ~loop_state[i].enabled =>
                    /\ loop_state'[i] = loop_state[i]
                    /\ \A j \in 1..Len(heater_state) :
                          heater_state[j].id = loop_state[i].heater_ids[1] =>
                             heater_state'[j].power_percent
                                = heater_state[j].power_percent ]_vars

\* a loop that was running with a previous error and a driven heater has
\* just been disabled and kept them
C39_Witness ==
    /\ last.op = "enable"
    /\ last.arg = FALSE
    /\ last.ret = 0
    /\ \E i \in 1..Len(loop_state) :
          /\ loop_state[i].id = last.ids[1]
          /\ last.pre[2][i].enabled
          /\ ~loop_state[i].enabled
          /\ loop_state[i].pid.prev_error # I(0)
          /\ loop_state[i].pid = last.pre[2][i].pid
          /\ \E j \in 1..Len(heater_state) :
                /\ heater_state[j].id = loop_state[i].heater_ids[1]
                /\ heater_state[j].power_percent # I(0)


\* C40: in every reachable state of the sensor registry a cache entry marked
\* valid has reading status OK and the entry of a sensor the configuration
\* disables is not valid; so a disabled sensor adds nothing to the sum and the
\* count of any get_average, and a tick gives SENSOR_ERROR to every loop it
\* processes whose sensors are all disabled.
C40_ValidMeansOkAndEnabled ==
    LET enabled_only(ids) ==
            SelectSeq(ids, LAMBDA id :
                \E i \in 1..Len(cfg.sensors) :
                    cfg.sensors[i].id = id /\ cfg.sensors[i].enabled)
    IN  /\ \A i \in 1..Len(sensor_cache) :
              /\ sensor_cache[i].valid => sensor_cache[i].reading.status = "OK"
              /\ ~cfg.sensors[i].enabled => ~sensor_cache[i].valid
        /\ \A ids \in { <<"sensor-3">>, <<"sensor-1", "sensor-3">>,
                        <<"sensor-3", "sensor-2", "sensor-1">> } :
              /\ SumValid(sensor_cache, ids, 1)
                    = SumValid(sensor_cache, enabled_only(ids), 1)
              /\ enabled_only(ids) = <<>> =>
                    sensor_manager_get_average(sensor_cache, ids).ret # 0
              /\ enabled_only(ids) # <<>> =>
                    sensor_manager_get_average(sensor_cache, ids)
                        = sensor_manager_get_average(sensor_cache, enabled_only(ids))
        /\ \A i \in 1..Len(loop_state) :
              ( /\ loop_state[i].enabled
                /\ ~loop_state[i].suspended
                /\ enabled_only(loop_state[i].sensor_ids) = <<>> ) =>
                 \A r \in UpdateAll(loop_state, sensor_cache, heater_state, 1,
                                    ControlPeriod) :
                     r.ls[i].status = "SENSOR_ERROR"

\* the enabled sensors hold valid readings, the disabled one does not, an
\* average over an enabled and the disabled sensor returned the enabled
\* sensor's reading, and a tick has processed the loop on the disabled sensor
C40_Witness ==
    /\ sensor_cache[1].valid
    /\ sensor_cache[2].valid
    /\ ~cfg.sensors[3].enabled
    /\ ~sensor_cache[3].valid
    /\ last.op = "get_average"
    /\ last.ids = <<"sensor-1", "sensor-3">>
    /\ last.ret = 0
    /\ last.out = sensor_cache[1].reading.temperature_kelvin
    /\ loop_state[1].sensor_ids = <<"sensor-3">>
    /\ loop_state[1].status = "SENSOR_ERROR"

=============================================================================
